---- MODULE Spec2Model ----
(***************************************************************************)
(* Scheduling and rescheduling engine of family-tasks-app.                 *)
(*                                                                         *)
(*   services/scheduler.ts          (src/unnamed/part_003)                 *)
(*   services/learningEngine.ts     (src/unnamed/part_001, 873-1195)       *)
(*   services/realtimeScheduler.ts  (src/unnamed/part_001, 1197-1595)      *)
(*   hooks/useRealTimeSync.ts       (src/unnamed/part_001, 1-310)          *)
(*                                                                         *)
(* Instants and durations are integers counted in ticks of half a minute:  *)
(* the relaxation ladder halves the buffer (15 -> 7.5 minutes), so half    *)
(* minutes occur in the code's arithmetic.  Day 0 is a Sunday at 00:00.    *)
(***************************************************************************)
EXTENDS Integers, Sequences, FiniteSets, TLC

VARIABLES
  clock,          \* the value new Date() returns ("now")
  calendar,       \* the provider's events, in the order the provider lists them
  failDays,       \* days whose getEvents query throws
  workingHours,   \* name of the WorkingHours table in force (see Hours)
  call,           \* arguments of a direct scheduleTask call
  result,         \* what that call returned or threw; "pending" before it
  learningData,   \* LearningEngine.learningData: task type -> LearningData
  taskHistory,    \* number of entries stored under familytasks_task_history
  estimate,       \* the last estimation request and the Estimation returned
  insights,       \* what the last getLearningInsights call returned or threw
  tasks,          \* the application's task objects, by task id
  storedTasks,    \* localStorage familytasks_tasks: the tasks as JSON text
  reschedulingInProgress,  \* RealtimeScheduler.reschedulingInProgress
  passes,         \* the calls of handleCalendarChange / rescheduleAffectedTasks
  eventStore,     \* localStorage familytasks_rescheduling_events
  eventListeners, \* RealtimeScheduler.eventListeners, in insertion order
  delivered,      \* listener invocations so far: <<listener id, event>>
  pendingRescheduling,  \* useRealTimeSync state: the pending event or none
  timers,         \* events whose setTimeout(applyRescheduling) has not fired
  rejected,       \* ids of the events rejectRescheduling has discarded
  document,       \* a Task or ReschedulingEvent handed to JSON.stringify
  reloaded,       \* what a load path made of the stored text; none before
  mirror,         \* handleQuickAdd / autoScheduleTasks: one task's mirroring
  providerEvents, \* ids of the events createEvent has made in the provider
  webhook         \* WebhookHandler: isListening, its interval timers, counts

envVars == <<clock, calendar, failDays, workingHours>>
schedVars == <<call, result>>
learnVars == <<learningData, taskHistory, estimate, insights>>
reschedVars == <<tasks, storedTasks, reschedulingInProgress, passes,
                 eventStore, eventListeners, delivered>>
hookVars == <<pendingRescheduling, timers, rejected>>
storeVars == <<document, reloaded>>
mirrorVars == <<mirror, providerEvents>>
listenVars == <<webhook>>
vars == <<clock, calendar, failDays, workingHours, call, result,
          learningData, taskHistory, estimate, insights, tasks, storedTasks,
          reschedulingInProgress, passes, eventStore, eventListeners, delivered,
          pendingRescheduling, timers, rejected, document, reloaded,
          mirror, providerEvents, webhook>>

----------------------------------------------------------------------------
(* Units and calendar arithmetic *)

TicksPerMin == 2
MinutesPerDay == 1440
MinSlotMinutes == 30

Mins(m) == m * TicksPerMin
DayLen == Mins(MinutesPerDay)
NoDate == -1

\* Math.floor(ms / (60 * 1000)), kept in ticks
FloorToMinute(d) == (d \div TicksPerMin) * TicksPerMin

DayOf(t) == t \div DayLen
\* date.setHours(h, m, 0, 0)
SetHours(t, h, m) == DayOf(t) * DayLen + Mins(h * 60 + m)
\* an instant given as day, hour, minute
At(d, h, m) == d * DayLen + Mins(h * 60 + m)

Min2(a, b) == IF a <= b THEN a ELSE b
Max2(a, b) == IF a >= b THEN a ELSE b

\* getDayOfWeek: 0 = sunday .. 6 = saturday
getDayOfWeek(t) == DayOf(t) % 7

----------------------------------------------------------------------------
(* Calendar provider: getEvents(calendarId, timeMin, timeMax) *)

\* events ending after timeMin and starting before timeMax
getEvents(cal, timeMin, timeMax) ==
  SelectSeq(cal, LAMBDA e : e.end > timeMin /\ e.start < timeMax)

RECURSIVE InsertByStart(_, _)
InsertByStart(sorted, e) ==
  IF sorted = <<>> THEN <<e>>
  ELSE IF sorted[Len(sorted)].start <= e.start THEN Append(sorted, e)
  ELSE Append(InsertByStart(SubSeq(sorted, 1, Len(sorted) - 1), e),
              sorted[Len(sorted)])

RECURSIVE SortByStart(_)
\* events.sort((a, b) => a.start - b.start): stable
SortByStart(evs) ==
  IF evs = <<>> THEN <<>>
  ELSE InsertByStart(SortByStart(SubSeq(evs, 1, Len(evs) - 1)), evs[Len(evs)])

----------------------------------------------------------------------------
(* findDayAvailableSlots *)

Slot(s, e, d) == [start |-> s, end |-> e, duration |-> d]

RECURSIVE GapWalk(_, _, _, _, _)
\* the for-loop over sortedEvents and the check after the last event
GapWalk(evs, currentTime, dayEnd, buf, slots) ==
  IF evs = <<>>
  THEN IF currentTime < dayEnd
          /\ FloorToMinute(dayEnd - currentTime) >= Mins(MinSlotMinutes)
       THEN Append(slots, Slot(currentTime, dayEnd,
                               FloorToMinute(dayEnd - currentTime)))
       ELSE slots
  ELSE LET event == Head(evs)
           slotEnd == event.start - buf
           duration == FloorToMinute(slotEnd - currentTime)
           add == /\ currentTime < event.start
                  /\ slotEnd > currentTime
                  /\ duration >= Mins(MinSlotMinutes)
       IN GapWalk(Tail(evs), event.end + buf, dayEnd, buf,
                  IF add THEN Append(slots, Slot(currentTime, slotEnd, duration))
                  ELSE slots)

\* findDayAvailableSlots whose catch block adds no slot
findDayAvailableSlotsClosed(date, cfg, buf, cal, failing) ==
  IF DayOf(date) \in failing THEN <<>>
  ELSE GapWalk(SortByStart(getEvents(cal, SetHours(date, cfg.startH, cfg.startM),
                                     SetHours(date, cfg.endH, cfg.endM))),
               SetHours(date, cfg.startH, cfg.startM),
               SetHours(date, cfg.endH, cfg.endM), buf, <<>>)

findDayAvailableSlots(date, cfg, buf, cal, failing) ==
  LET dayStart == SetHours(date, cfg.startH, cfg.startM)
      dayEnd == SetHours(date, cfg.endH, cfg.endM)
  IN IF DayOf(date) \in failing
     THEN <<Slot(dayStart, dayEnd, FloorToMinute(dayEnd - dayStart))>>
     ELSE GapWalk(SortByStart(getEvents(cal, dayStart, dayEnd)),
                  dayStart, dayEnd, buf, <<>>)

----------------------------------------------------------------------------
(* findAvailableTimeSlots *)

RECURSIVE DayLoop(_, _)
\* the values currentDate takes in
\* while (currentDate <= endDate) { ...; currentDate.setDate(getDate() + 1) }
DayLoop(currentDate, endDate) ==
  IF currentDate <= endDate
  THEN <<currentDate>> \o DayLoop(currentDate + DayLen, endDate)
  ELSE <<>>

\* ExaminedDates without the test of dayConfig.enabled
ExaminedDatesEveryDay(startDate, endDate, endIsDate, wh) ==
  IF endIsDate THEN DayLoop(startDate, endDate) ELSE <<>>

\* endIsDate: the deadline is a Date object; an ISO string compares false
\* against a Date (the string converts to NaN), so the loop body never runs
ExaminedDates(startDate, endDate, endIsDate, wh) ==
  IF endIsDate
  THEN SelectSeq(DayLoop(startDate, endDate),
                 LAMBDA d : wh[getDayOfWeek(d)].enabled)
  ELSE <<>>

RECURSIVE DaySlots(_, _, _, _, _)
\* availableSlots.push(...daySlots) for each examined date
DaySlots(dates, wh, buf, cal, failing) ==
  IF dates = <<>> THEN <<>>
  ELSE findDayAvailableSlots(Head(dates), wh[getDayOfWeek(Head(dates))],
                             buf, cal, failing)
       \o DaySlots(Tail(dates), wh, buf, cal, failing)

findAvailableTimeSlots(startDate, endDate, endIsDate, wh, buf, cal, failing) ==
  DaySlots(ExaminedDates(startDate, endDate, endIsDate, wh), wh, buf, cal,
           failing)

----------------------------------------------------------------------------
(* scheduleTask *)

PhaseNames == <<"incubation", "design", "implementation", "improvement">>
PhaseIndex(p) == CHOOSE i \in 1..4 : PhaseNames[i] = p

\* the four-phase list without the filter
PhaseListUnfiltered(est) ==
  <<[phase |-> "incubation", duration |-> Mins(est.incubation)],
    [phase |-> "design", duration |-> Mins(est.design)],
    [phase |-> "implementation", duration |-> Mins(est.implementation)],
    [phase |-> "improvement", duration |-> Mins(est.improvement)]>>

\* the four-phase list in fixed order, filtered to duration > 0
PhaseList(est) ==
  SelectSeq(<<[phase |-> "incubation", duration |-> Mins(est.incubation)],
              [phase |-> "design", duration |-> Mins(est.design)],
              [phase |-> "implementation", duration |-> Mins(est.implementation)],
              [phase |-> "improvement", duration |-> Mins(est.improvement)]>>,
            LAMBDA p : p.duration > 0)

RECURSIVE SlotFillStaleCursor(_, _, _, _, _, _)
\* SlotFill with the cursor advanced by the buffer only, not past the block
SlotFillStaleCursor(taskId, phases, slotStart, remainingSlotTime, buf, events) ==
  IF Len(phases) > 0 /\ remainingSlotTime >= Mins(MinSlotMinutes)
  THEN LET phase == Head(phases)
           timeToAllocate == Min2(phase.duration, remainingSlotTime)
           eventEnd == slotStart + timeToAllocate
           ev == [taskId |-> taskId, phase |-> phase.phase,
                  startTime |-> slotStart, endTime |-> eventEnd]
           left == phase.duration - timeToAllocate
           rest == IF left <= 0 THEN Tail(phases)
                   ELSE <<[phase |-> phase.phase, duration |-> left]>>
                        \o Tail(phases)
       IN SlotFillStaleCursor(taskId, rest, slotStart + buf,
                   remainingSlotTime - (timeToAllocate + buf), buf,
                   Append(events, ev))
  ELSE [phases |-> phases, events |-> events]

RECURSIVE SlotFill(_, _, _, _, _, _)
\* the while-loop inside one slot; returns the phases left and the events
SlotFill(taskId, phases, slotStart, remainingSlotTime, buf, events) ==
  IF Len(phases) > 0 /\ remainingSlotTime >= Mins(MinSlotMinutes)
  THEN LET phase == Head(phases)
           timeToAllocate == Min2(phase.duration, remainingSlotTime)
           eventEnd == slotStart + timeToAllocate
           ev == [taskId |-> taskId, phase |-> phase.phase,
                  startTime |-> slotStart, endTime |-> eventEnd]
           left == phase.duration - timeToAllocate
           rest == IF left <= 0 THEN Tail(phases)
                   ELSE <<[phase |-> phase.phase, duration |-> left]>>
                        \o Tail(phases)
       IN SlotFill(taskId, rest, eventEnd + buf,
                   remainingSlotTime - (timeToAllocate + buf), buf,
                   Append(events, ev))
  ELSE [phases |-> phases, events |-> events]

RECURSIVE SlotLoop(_, _, _, _, _)
\* for (const slot of availableSlots)
SlotLoop(taskId, slots, phases, buf, events) ==
  IF slots = <<>> \/ Len(phases) = 0
  THEN [phases |-> phases, events |-> events]
  ELSE LET r == SlotFill(taskId, phases, Head(slots).start,
                         Head(slots).duration, buf, events)
       IN SlotLoop(taskId, Tail(slots), r.phases, buf, r.events)

\* SumDuration counting the elements instead of adding their durations
SumDurationCount(s) == Len(s)

RECURSIVE SumDuration(_)
SumDuration(s) == IF s = <<>> THEN 0 ELSE Head(s).duration + SumDuration(Tail(s))

\* scheduleTask(task, estimation, workingHours, bufferTime) called at `now`.
\* discarded: the blocks in scheduledEvents when the error is thrown
scheduleTask(task, est, wh, buf, now, cal, failing) ==
  IF task.dueDate = NoDate
  THEN [status |-> "MissingDeadline", events |-> <<>>, slots |-> <<>>,
        dates |-> <<>>, need |-> 0, available |-> 0, discarded |-> <<>>]
  ELSE LET dates == ExaminedDates(now, task.dueDate, task.dueIsDate, wh)
           slots == findAvailableTimeSlots(now, task.dueDate, task.dueIsDate,
                                           wh, buf, cal, failing)
           r == SlotLoop(task.id, slots, PhaseList(est), buf, <<>>)
       IN IF Len(r.phases) > 0
          THEN [status |-> "CapacityExceeded", events |-> <<>>, slots |-> slots,
                dates |-> dates, need |-> SumDuration(r.phases),
                available |-> SumDuration(slots), discarded |-> r.events]
          ELSE [status |-> "ok", events |-> r.events, slots |-> slots,
                dates |-> dates, need |-> 0, available |-> 0,
                discarded |-> <<>>]

----------------------------------------------------------------------------
(* Inputs *)

MaxBusy == 2

Monday == 1
Tuesday == 2

Day(s, e, on) == [startH |-> s, startM |-> 0, endH |-> e, endM |-> 0,
                  enabled |-> on]

\* getDefaultWorkingHours / DEFAULT_WORKING_HOURS
DefaultWorkingHours ==
  [d \in 0..6 |-> IF d \in {0, 6} THEN Day(10, 16, FALSE) ELSE Day(9, 18, TRUE)]

\* mornings only, Tuesday off
MorningHours ==
  [d \in 0..6 |-> IF d \in {0, 2, 6} THEN Day(10, 16, FALSE) ELSE Day(9, 11, TRUE)]

\* what the settings form accepts as well: twenty minutes on monday, and on
\* tuesday an end before the start
BriefHours ==
  [d \in 0..6 |-> IF d = 1 THEN [startH |-> 9, startM |-> 0, endH |-> 9,
                                 endM |-> 20, enabled |-> TRUE]
                  ELSE IF d = 2 THEN Day(13, 12, TRUE)
                  ELSE Day(10, 16, FALSE)]

WorkingHoursSet == {"default", "mornings"}

\* the WorkingHours object a name stands for: weekday -> day configuration
Hours(name) == IF name = "default" THEN DefaultWorkingHours
               ELSE IF name = "brief" THEN BriefHours ELSE MorningHours

NowSet == {At(Monday, 8, 0), At(Monday, 10, 30), At(Monday, 17, 45)}

DueSet == {NoDate, At(Monday, 10, 0), At(Monday, 12, 0), At(Tuesday, 9, 45),
           At(Tuesday, 18, 0)}

Busy(d, h1, m1, h2, m2) == [start |-> At(d, h1, m1), end |-> At(d, h2, m2)]

BusyPool == {Busy(Monday, 9, 0, 12, 0), Busy(Monday, 9, 30, 10, 0),
             Busy(Monday, 11, 0, 17, 40), Busy(Tuesday, 9, 0, 17, 45)}

RECURSIVE SeqsUpTo(_, _)
SeqsUpTo(S, n) ==
  IF n = 0 THEN {<<>>}
  ELSE SeqsUpTo(S, n - 1)
       \cup {Append(s, x) : s \in {t \in SeqsUpTo(S, n - 1) : Len(t) = n - 1},
                            x \in S}

Est(a, b, c, d, t) == [incubation |-> a, design |-> b, implementation |-> c,
                       improvement |-> d, total |-> t]

\* 60 and 90 minutes split 20/30/40/10, and one long single-phase task
EstimationSet == {Est(12, 18, 24, 6, 60), Est(18, 27, 36, 9, 90),
                  Est(0, 0, 200, 0, 200), Est(8, 12, 16, 4, 42)}

BufferSet == {0, Mins(15)}

----------------------------------------------------------------------------
(* Exact fractions for the learning engine's statistics.  The code uses     *)
(* IEEE doubles; a fraction is kept here as numerator over denominator in   *)
(* lowest terms.                                                            *)

RECURSIVE Gcd(_, _)
Gcd(a, b) == IF b = 0 THEN a ELSE Gcd(b, a % b)
Abs(x) == IF x < 0 THEN -x ELSE x
Rat(n, d) == LET g == Gcd(Abs(n), d) IN [n |-> n \div g, d |-> d \div g]
Lcm(a, b) == (a \div Gcd(a, b)) * b
RAdd(a, b) == LET l == Lcm(a.d, b.d)
              IN Rat(a.n * (l \div a.d) + b.n * (l \div b.d), l)
RScale(k, a, den) == Rat(k * a.n, a.d * den)
RGreater(a, b) == a.n * b.d > b.n * a.d
\* Math.floor(k * a)
FloorMul(k, a) == (k * a.n) \div a.d

BaseTime == 60
AlphaTenths == 1
Tenth(k) == Rat(k, 10)

\* alpha * x + (1 - alpha) * old, alpha = 0.1
Ema(x, old) == RAdd(RScale(AlphaTenths, x, 10), RScale(10 - AlphaTenths, old, 10))

----------------------------------------------------------------------------
(* LearningEngine *)

NoRecord == [none |-> TRUE]

\* getDefaultEstimation
getDefaultEstimation ==
  [incubation |-> FloorMul(BaseTime, Tenth(2)),
   design |-> FloorMul(BaseTime, Tenth(3)),
   implementation |-> FloorMul(BaseTime, Tenth(4)),
   improvement |-> FloorMul(BaseTime, Tenth(1)),
   total |-> BaseTime, confidence |-> Tenth(7)]

\* the title vocabulary, in the order the code tests it
TitleRules == <<[word |-> "kaimono", type |-> "shopping"],
                [word |-> "kounyuu", type |-> "shopping"],
                [word |-> "souji", type |-> "chores"],
                [word |-> "katazuke", type |-> "chores"],
                [word |-> "kaigi", type |-> "work"],
                [word |-> "meeting", type |-> "work"],
                [word |-> "benkyou", type |-> "study"],
                [word |-> "gakushuu", type |-> "study"]>>

\* classifyTask: project, else first keyword, else title vocabulary, else other
classifyTask(task) ==
  IF task.project # "" THEN task.project
  ELSE IF Len(task.keywords) > 0 THEN task.keywords[1]
  ELSE LET hits == {i \in 1..Len(TitleRules) : TitleRules[i].word \in task.title}
       IN IF hits = {} THEN "other"
          ELSE TitleRules[CHOOSE i \in hits : \A j \in hits : i <= j].type

Total4(t) == t.incubation + t.design + t.implementation + t.improvement

\* calculateEstimationAccuracy giving 0 whenever a total is zero
calculateEstimationAccuracyAnyZero(estimation, actualTime) ==
  LET estimatedTotal == estimation.total
      actualTotal == Total4(actualTime)
  IN IF estimatedTotal = 0 \/ actualTotal = 0 THEN Rat(0, 1)
     ELSE LET m == Max2(estimatedTotal, actualTotal)
              relNum == Abs(estimatedTotal - actualTotal)
          IN IF m - relNum < 0 THEN Rat(0, 1) ELSE Rat(m - relNum, m)

\* calculateEstimationAccuracy
calculateEstimationAccuracy(estimation, actualTime) ==
  LET estimatedTotal == estimation.total
      actualTotal == Total4(actualTime)
  IN IF estimatedTotal = 0 /\ actualTotal = 0 THEN Rat(1, 1)
     ELSE IF estimatedTotal = 0 \/ actualTotal = 0 THEN Rat(0, 1)
     ELSE LET m == Max2(estimatedTotal, actualTotal)
              relNum == Abs(estimatedTotal - actualTotal)
          IN IF m - relNum < 0 THEN Rat(0, 1) ELSE Rat(m - relNum, m)

\* createInitialLearningData
createInitialLearningData(taskType) ==
  [taskType |-> taskType,
   estimationAccuracy |-> Tenth(7),
   underestimationRate |-> Tenth(5),
   overestimationRate |-> Tenth(5),
   phaseDistribution |-> [incubation |-> Tenth(2), design |-> Tenth(3),
                          implementation |-> Tenth(4), improvement |-> Tenth(1)]]

\* updateLearningData: the record of the task's type after one observation
updateLearningData(data, task, originalEstimation, actualTime) ==
  LET taskType == classifyTask(task)
      old == IF data[taskType] = NoRecord
             THEN createInitialLearningData(taskType) ELSE data[taskType]
      accuracy == calculateEstimationAccuracy(originalEstimation, actualTime)
      totalEstimated == originalEstimation.total
      totalActual == Total4(actualTime)
      actualTotal == IF totalActual = 0 THEN 1 ELSE totalActual
      zero == Rat(0, 1)
      one == Rat(1, 1)
      under == IF totalActual > totalEstimated
               THEN Ema(one, old.underestimationRate)
               ELSE IF totalActual < totalEstimated
               THEN Ema(zero, old.underestimationRate)
               ELSE old.underestimationRate
      over == IF totalActual > totalEstimated
              THEN Ema(zero, old.overestimationRate)
              ELSE IF totalActual < totalEstimated
              THEN Ema(one, old.overestimationRate)
              ELSE old.overestimationRate
      dist == old.phaseDistribution
  IN [data EXCEPT ![taskType] =
        [taskType |-> taskType,
         estimationAccuracy |-> Ema(accuracy, old.estimationAccuracy),
         underestimationRate |-> under,
         overestimationRate |-> over,
         phaseDistribution |->
           [incubation |-> Ema(Rat(actualTime.incubation, actualTotal),
                               dist.incubation),
            design |-> Ema(Rat(actualTime.design, actualTotal), dist.design),
            implementation |-> Ema(Rat(actualTime.implementation, actualTotal),
                                   dist.implementation),
            improvement |-> Ema(Rat(actualTime.improvement, actualTotal),
                                dist.improvement)]]]

\* priority 3 -> 1.5, priority 1 -> 0.7, else 1.0 (in tenths)
PriorityTenths(priority) ==
  IF priority = 3 THEN 15 ELSE IF priority = 1 THEN 7 ELSE 10

\* redistributePhases(baseEstimation, newTotal)
redistributePhases(baseEstimation, newTotal) ==
  LET ratio == Rat(newTotal, baseEstimation.total)
  IN [incubation |-> FloorMul(baseEstimation.incubation, ratio),
      design |-> FloorMul(baseEstimation.design, ratio),
      implementation |-> FloorMul(baseEstimation.implementation, ratio),
      improvement |-> FloorMul(baseEstimation.improvement, ratio),
      total |-> newTotal, confidence |-> baseEstimation.confidence]

\* getImprovedEstimation without the learning data: the basic estimation
getImprovedEstimationUnlearned(data, task) ==
  LET baseEstimation ==
        [getDefaultEstimation EXCEPT
           !.total = FloorMul(getDefaultEstimation.total,
                              Tenth(PriorityTenths(task.priority)))]
  IN redistributePhases(baseEstimation, baseEstimation.total)

\* getImprovedEstimation
getImprovedEstimation(data, task) ==
  LET rec == data[classifyTask(task)]
      \* baseEstimation.total is overwritten in place before anything else
      baseEstimation ==
        [getDefaultEstimation EXCEPT
           !.total = FloorMul(getDefaultEstimation.total,
                              Tenth(PriorityTenths(task.priority)))]
  IN IF rec = NoRecord
     THEN redistributePhases(baseEstimation, baseEstimation.total)
     ELSE LET scaled ==
                IF RGreater(rec.underestimationRate, Tenth(6))
                THEN FloorMul(baseEstimation.total, Tenth(12))
                ELSE IF RGreater(rec.overestimationRate, Tenth(6))
                THEN FloorMul(baseEstimation.total, Tenth(9))
                ELSE baseEstimation.total
              adjustedTotal == scaled
              patterns == rec.phaseDistribution
              a == FloorMul(adjustedTotal, patterns.incubation)
              b == FloorMul(adjustedTotal, patterns.design)
              c == FloorMul(adjustedTotal, patterns.implementation)
              d == FloorMul(adjustedTotal, patterns.improvement)
              phaseSum == a + b + c + d
          IN [incubation |-> a, design |-> b,
              implementation |-> IF phaseSum # adjustedTotal
                                 THEN c + (adjustedTotal - phaseSum) ELSE c,
              improvement |-> d, total |-> adjustedTotal,
              confidence |-> rec.estimationAccuracy]

----------------------------------------------------------------------------
(* RealtimeScheduler: rescheduling one task *)

SevenDays == 7
MinBufferMinutes == 5

NoSchedule == [none |-> TRUE]

RECURSIVE InsertByStartTime(_, _)
InsertByStartTime(sorted, e) ==
  IF sorted = <<>> THEN <<e>>
  ELSE IF sorted[Len(sorted)].startTime <= e.startTime THEN Append(sorted, e)
  ELSE Append(InsertByStartTime(SubSeq(sorted, 1, Len(sorted) - 1), e),
              sorted[Len(sorted)])

RECURSIVE SortByStartTime(_)
\* task.calendarEvents.sort((a, b) => a.startTime - b.startTime): stable
SortByStartTime(evs) ==
  IF evs = <<>> THEN <<>>
  ELSE InsertByStartTime(SortByStartTime(SubSeq(evs, 1, Len(evs) - 1)),
                         evs[Len(evs)])

\* getTaskSchedule returning null whatever the task's blocks
getTaskScheduleNull(task) ==
  [status |-> "ok", schedule |-> NoSchedule, events |-> task.calendarEvents]

\* getTaskSchedule: sorts task.calendarEvents in place by start time and
\* returns the first start and the last end.  The comparator calls
\* startTime.getTime(), which throws on the ISO strings of a task that came
\* out of JSON.parse; with fewer than two events it is never called.
getTaskSchedule(task) ==
  IF Len(task.calendarEvents) = 0
  THEN [status |-> "ok", schedule |-> NoSchedule, events |-> task.calendarEvents]
  ELSE IF ~task.eventsAreDates /\ Len(task.calendarEvents) >= 2
  THEN [status |-> "TypeError", schedule |-> NoSchedule,
        events |-> task.calendarEvents]
  ELSE LET sorted == SortByStartTime(task.calendarEvents)
       IN [status |-> "ok",
           schedule |-> [start |-> sorted[1].startTime,
                         end |-> sorted[Len(sorted)].endTime],
           events |-> sorted]

\* RealtimeScheduler.estimateTaskTime
basicEstimate(task) ==
  IF task.estimation # NoRecord THEN task.estimation
  ELSE LET adjustedTime == FloorMul(BaseTime, Tenth(PriorityTenths(task.priority)))
       IN [incubation |-> FloorMul(adjustedTime, Tenth(2)),
           design |-> FloorMul(adjustedTime, Tenth(3)),
           implementation |-> FloorMul(adjustedTime, Tenth(4)),
           improvement |-> FloorMul(adjustedTime, Tenth(1)),
           total |-> adjustedTime]

\* Math.max(5, bufferTime / 2), in ticks
reducedBufferTime(buf) == Max2(Mins(MinBufferMinutes), buf \div 2)

\* the estimation of ladder step (c): every field times 0.7, floored
reducedEstimation(est) ==
  [incubation |-> FloorMul(est.incubation, Tenth(7)),
   design |-> FloorMul(est.design, Tenth(7)),
   implementation |-> FloorMul(est.implementation, Tenth(7)),
   improvement |-> FloorMul(est.improvement, Tenth(7)),
   total |-> FloorMul(est.total, Tenth(7))]

\* scheduleTaskWithRelaxedConstraints; rung names the retry that succeeded
scheduleTaskWithRelaxedConstraints(task, est, wh, buf, now, cal, failing) ==
  LET \* new Date(originalDueDate) is a Date also when the deadline is a string
      extended == [task EXCEPT !.dueDate = task.dueDate + SevenDays * DayLen,
                               !.dueIsDate = TRUE]
      a == IF task.dueDate # NoDate
           THEN scheduleTask(extended, est, wh, buf, now, cal, failing)
           ELSE [status |-> "skipped"]
      b == scheduleTask(task, est, wh, reducedBufferTime(buf), now, cal, failing)
      c == scheduleTask(task, reducedEstimation(est), wh, buf, now, cal, failing)
      \* the scheduleTask calls made before step (b)
      tried == IF task.dueDate # NoDate THEN 1 ELSE 0
  IN IF a.status = "ok"
     THEN [status |-> "ok", rung |-> "a", events |-> a.events, attempts |-> 1]
     ELSE IF b.status = "ok"
     THEN [status |-> "ok", rung |-> "b", events |-> b.events,
           attempts |-> tried + 1]
     ELSE IF c.status = "ok"
     THEN [status |-> "ok", rung |-> "c", events |-> c.events,
           attempts |-> tried + 2]
     ELSE [status |-> "failed", rung |-> "none", events |-> <<>>,
           attempts |-> tried + 2]

\* the body of the for-loop of rescheduleAffectedTasks for one task, given
\* what its calls returned: old (getTaskSchedule), strict (scheduleTask) and
\* relaxed (scheduleTaskWithRelaxedConstraints, used only where the code
\* calls it).  Returns the task object afterwards, the change entries pushed
\* (none or one) and, as a record of the path taken: strict (the status of
\* the strict call), ladder (whether the ladder was run and which rung
\* succeeded), updated (whether the task was given the new blocks), window
\* (first start and last end of the new blocks) and attempts (the number of
\* scheduleTask calls made for the task).
loopBody(task, eventId, now, old, strict, relaxed) ==
  LET sortedTask == [task EXCEPT !.calendarEvents = old.events]
      hasEvents == Len(task.calendarEvents) > 0
      ladder == IF strict.status = "ok" \/ hasEvents THEN "not run"
                ELSE relaxed.rung
      newEvents == IF strict.status = "ok" THEN strict.events
                   ELSE IF ~hasEvents /\ relaxed.status = "ok" THEN relaxed.events
                   ELSE <<>>
      newSchedule == [start |-> newEvents[1].startTime,
                      end |-> newEvents[Len(newEvents)].endTime]
      path(upd) == [strict |-> strict.status, ladder |-> ladder, updated |-> upd,
                    window |-> IF upd THEN newSchedule ELSE NoSchedule,
                    attempts |-> IF ladder = "not run" THEN 1
                                 ELSE 1 + relaxed.attempts]
  IN IF old.status = "TypeError"
     THEN [task |-> task, changes |-> <<>>,
           path |-> [strict |-> "not run", ladder |-> "not run",
                     updated |-> FALSE, window |-> NoSchedule, attempts |-> 0]]
     ELSE IF Len(newEvents) = 0
     THEN [task |-> sortedTask, changes |-> <<>>, path |-> path(FALSE)]
     ELSE IF old.schedule # NoSchedule /\ ~task.eventsAreDates
     THEN \* oldSchedule.start.getTime() throws on a string: outer catch
          [task |-> sortedTask, changes |-> <<>>, path |-> path(FALSE)]
     ELSE [task |-> [sortedTask EXCEPT
                       !.calendarEvents =
                          [i \in 1..Len(newEvents) |->
                             [taskId |-> newEvents[i].taskId,
                              phase |-> newEvents[i].phase,
                              startTime |-> newEvents[i].startTime,
                              endTime |-> newEvents[i].endTime,
                              googleEventId |-> ""]],
                       !.eventsAreDates = TRUE,
                       !.scheduledStartDate = newSchedule.start,
                       !.scheduledEndDate = newSchedule.end,
                       !.lastRescheduled = now,
                       !.reschedulingHistory = Append(@, eventId)],
           changes |-> IF old.schedule # NoSchedule
                          /\ (old.schedule.start # newSchedule.start
                              \/ old.schedule.end # newSchedule.end)
                       THEN <<[taskId |-> task.id, oldSchedule |-> old.schedule,
                               newSchedule |-> newSchedule]>>
                       ELSE <<>>,
           path |-> path(TRUE)]

\* one task through the for-loop: the three calls, then the loop body
rescheduleOne(task, eventId, wh, buf, now, cal, failing) ==
  CHOOSE outcome \in
    {loopBody(task, eventId, now, old, strict, relaxed) :
       old \in {getTaskSchedule(task)},
       strict \in {scheduleTask(task, basicEstimate(task), wh, buf, now, cal,
                                failing)},
       relaxed \in {scheduleTaskWithRelaxedConstraints(
                      task, basicEstimate(task), wh, buf, now, cal, failing)}} :
    TRUE

----------------------------------------------------------------------------
(* RealtimeScheduler: passes *)

MaxCalls == 2
Calls == 1..MaxCalls

NoEvent == [none |-> TRUE]

IdlePass == [pc |-> "idle", entry |-> "none", trigger |-> "", queue |-> <<>>,
             copies |-> <<>>, bufferTime |-> 0, event |-> NoEvent,
             paths |-> <<>>]

\* JSON.parse(JSON.stringify(task)): every Date comes back as an ISO string
JsonRoundTrip(task) == [task EXCEPT !.dueIsDate = FALSE, !.eventsAreDates = FALSE]

\* getAffectedTasks taking every stored task that has blocks, whatever
\* event they refer to
getAffectedTasksAnyBlock(stored, eventId) ==
  SelectSeq(stored, LAMBDA t : Len(t.calendarEvents) > 0 /\ t.status # "done")

\* getAffectedTasks: the stored tasks, not done, with a block whose
\* googleEventId is eventId
getAffectedTasks(stored, eventId) ==
  SelectSeq(stored,
            LAMBDA t : /\ \E i \in 1..Len(t.calendarEvents) :
                            t.calendarEvents[i].googleEventId = eventId
                       /\ t.status # "done")

\* the ReschedulingEvent object built at the start of rescheduleAffectedTasks
newReschedulingEvent(p, triggeredBy, ids) ==
  [id |-> p, triggeredBy |-> triggeredBy, affectedTasks |-> ids,
   timestamp |-> clock, changes |-> <<>>]

EventCap == 100

\* saveReschedulingEvent without the splice
saveReschedulingEventUncapped(store, event) == Append(store, event)

\* saveReschedulingEvent: append, keep the last 100
saveReschedulingEvent(store, event) ==
  LET all == Append(store, event)
  IN IF Len(all) > EventCap
     THEN SubSeq(all, Len(all) - EventCap + 1, Len(all)) ELSE all

\* the listeners whose function throws when called
Throwing == {"bad"}

\* eventListeners.set(id, listener): a new key goes to the end of the Map, a
\* key already there keeps its place
AddEventListener(id) ==
  /\ eventListeners' = IF \E i \in 1..Len(eventListeners) : eventListeners[i] = id
                       THEN eventListeners ELSE Append(eventListeners, id)
  /\ UNCHANGED <<tasks, storedTasks, reschedulingInProgress, passes,
                 eventStore, delivered>>

\* eventListeners.delete(id)
RemoveEventListener(id) ==
  /\ eventListeners' = SelectSeq(eventListeners, LAMBDA l : l # id)
  /\ UNCHANGED <<tasks, storedTasks, reschedulingInProgress, passes,
                 eventStore, delivered>>

RECURSIVE notifyListenersUnprotected(_, _, _)
\* notifyListeners without the try/catch around each call: the forEach ends
\* at the first listener that throws
notifyListenersUnprotected(log, listeners, event) ==
  IF listeners = <<>> THEN log
  ELSE IF Head(listeners) \in Throwing
  THEN Append(log, <<Head(listeners), event>>)
  ELSE notifyListenersUnprotected(Append(log, <<Head(listeners), event>>),
                                  Tail(listeners), event)

\* notifyListeners: every listener is called, in insertion order; what a
\* listener throws is caught and logged
notifyListeners(log, listeners, event) ==
  log \o [i \in 1..Len(listeners) |-> <<listeners[i], event>>]

\* the end of a pass: the event is saved; a calendar-change pass then
\* notifies the listeners and releases the guard in its finally block
FinishPass(p, pass) ==
  /\ eventStore' = saveReschedulingEvent(eventStore, pass.event)
  /\ passes' = [passes EXCEPT ![p] = [pass EXCEPT !.pc = "returned"]]
  /\ IF pass.entry = "calendar"
     THEN /\ delivered' = notifyListeners(delivered, eventListeners, pass.event)
          /\ reschedulingInProgress' = FALSE
     ELSE UNCHANGED <<delivered, reschedulingInProgress>>

\* handleCalendarChange without the test of reschedulingInProgress
HandleCalendarChangeUnguarded(p, eventId) ==
  /\ passes[p].pc = "idle"
  /\ \A q \in Calls : q < p => passes[q].pc # "idle"
  /\ reschedulingInProgress' = TRUE
  /\ passes' = [passes EXCEPT ![p] =
                  [IdlePass EXCEPT !.pc = "affected", !.entry = "calendar",
                                   !.trigger = eventId,
                                   !.bufferTime = Mins(15)]]
  /\ UNCHANGED <<tasks, storedTasks, eventStore, eventListeners, delivered>>

\* handleCalendarChange up to its first await
HandleCalendarChange(p, eventId) ==
  /\ passes[p].pc = "idle"
  /\ \A q \in Calls : q < p => passes[q].pc # "idle"
  /\ IF reschedulingInProgress
     THEN /\ passes' = [passes EXCEPT ![p] =
                          [IdlePass EXCEPT !.pc = "dropped", !.entry = "calendar",
                                           !.trigger = eventId]]
          /\ UNCHANGED reschedulingInProgress
     ELSE /\ reschedulingInProgress' = TRUE
          /\ passes' = [passes EXCEPT ![p] =
                          [IdlePass EXCEPT !.pc = "affected", !.entry = "calendar",
                                           !.trigger = eventId,
                                           !.bufferTime = Mins(15)]]
  /\ UNCHANGED <<tasks, storedTasks, eventStore, eventListeners, delivered>>

\* handleCalendarChange after await getAffectedTasks: return when nothing is
\* affected, else enter rescheduleAffectedTasks(affectedTasks, 'calendar_change')
AffectedTasksLoaded(p) ==
  /\ passes[p].pc = "affected"
  /\ LET affected == getAffectedTasks(storedTasks, passes[p].trigger)
         ids == [i \in 1..Len(affected) |-> affected[i].id]
     IN IF Len(affected) = 0
        THEN /\ reschedulingInProgress' = FALSE
             /\ passes' = [passes EXCEPT ![p].pc = "returned"]
        ELSE /\ passes' = [passes EXCEPT ![p] =
                             [@ EXCEPT !.pc = "loop", !.queue = ids,
                                       !.copies = affected,
                                       !.event = newReschedulingEvent(
                                                   p, "calendar_change", ids)]]
             /\ UNCHANGED reschedulingInProgress
  /\ UNCHANGED <<tasks, storedTasks, eventStore, eventListeners, delivered>>

\* a direct rescheduleAffectedTasks(tasks, triggeredBy, workingHours,
\* bufferTime) call on application task objects, up to its first await
RescheduleAffectedTasks(p, ids, triggeredBy, buf) ==
  /\ passes[p].pc = "idle"
  /\ \A q \in Calls : q < p => passes[q].pc # "idle"
  /\ LET pass == [IdlePass EXCEPT !.pc = "loop", !.entry = "direct",
                                  !.queue = ids, !.bufferTime = buf,
                                  !.event = newReschedulingEvent(p, triggeredBy,
                                                                 ids)]
     IN IF ids = <<>>
        THEN FinishPass(p, pass)
        ELSE /\ passes' = [passes EXCEPT ![p] = pass]
             /\ UNCHANGED <<eventStore, delivered, reschedulingInProgress>>
  /\ UNCHANGED <<tasks, storedTasks, eventListeners>>

\* RescheduleNext with a ladder failure escaping the for-loop: the pass ends
\* there, the tasks left in the queue are not processed, no event is saved
RescheduleNextAbortOnFailure(p) ==
  /\ passes[p].pc = "loop"
  /\ passes[p].queue # <<>>
  /\ \E pass \in {passes[p]} :
     \E task \in {IF pass.entry = "calendar" THEN Head(pass.copies)
                  ELSE tasks[Head(pass.queue)]} :
     \E r \in {rescheduleOne(task, pass.event.id, Hours(workingHours),
                             pass.bufferTime, clock, calendar, failDays)} :
     \E next \in {[pass EXCEPT
                     !.queue = Tail(@),
                     !.copies = IF pass.entry = "calendar" THEN Tail(@) ELSE @,
                     !.event = [@ EXCEPT !.changes = @ \o r.changes],
                     !.paths = Append(@, [taskId |-> task.id,
                                          path |-> r.path])]} :
        /\ tasks' = IF pass.entry = "direct"
                    THEN [tasks EXCEPT ![task.id] = r.task] ELSE tasks
        /\ IF r.path.ladder = "none"
           THEN /\ passes' = [passes EXCEPT ![p] = [next EXCEPT !.pc = "failed"]]
                /\ UNCHANGED <<eventStore, delivered, reschedulingInProgress>>
           ELSE IF next.queue = <<>>
           THEN FinishPass(p, next)
           ELSE /\ passes' = [passes EXCEPT ![p] = next]
                /\ UNCHANGED <<eventStore, delivered, reschedulingInProgress>>
  /\ UNCHANGED <<storedTasks, eventListeners>>

\* one turn of the for-loop: the task at the head of the queue is
\* rescheduled; after the last task the pass runs to its end
RescheduleNext(p) ==
  /\ passes[p].pc = "loop"
  /\ passes[p].queue # <<>>
  /\ \E pass \in {passes[p]} :
     \E task \in {IF pass.entry = "calendar" THEN Head(pass.copies)
                  ELSE tasks[Head(pass.queue)]} :
     \E r \in {rescheduleOne(task, pass.event.id, Hours(workingHours),
                             pass.bufferTime, clock, calendar, failDays)} :
     \E next \in {[pass EXCEPT
                     !.queue = Tail(@),
                     !.copies = IF pass.entry = "calendar" THEN Tail(@) ELSE @,
                     !.event = [@ EXCEPT !.changes = @ \o r.changes],
                     !.paths = Append(@, [taskId |-> task.id,
                                          path |-> r.path])]} :
        /\ tasks' = IF pass.entry = "direct"
                    THEN [tasks EXCEPT ![task.id] = r.task] ELSE tasks
        /\ IF next.queue = <<>>
           THEN FinishPass(p, next)
           ELSE /\ passes' = [passes EXCEPT ![p] = next]
                /\ UNCHANGED <<eventStore, delivered, reschedulingInProgress>>
  /\ UNCHANGED <<storedTasks, eventListeners>>

\* no task, no pass: the rescheduler takes no part
ReschedIdle ==
  /\ tasks = <<>>
  /\ storedTasks = <<>>
  /\ reschedulingInProgress = FALSE
  /\ passes = [p \in Calls |-> IdlePass]
  /\ eventStore = <<>>
  /\ eventListeners = <<>>
  /\ delivered = <<>>

\* the sync hook is mounted, with no pending event and no timer
HookIdle ==
  /\ pendingRescheduling = NoEvent
  /\ timers = {}
  /\ rejected = {}

\* nothing is being saved or loaded
StoreIdle ==
  /\ document = [none |-> TRUE]
  /\ reloaded = [none |-> TRUE]

\* no task is being mirrored to the provider
NoMirror == [pc |-> "idle", entry |-> "none", blocks |-> <<>>, i |-> 0,
             googleEvents |-> <<>>, calendarEvents |-> <<>>, saved |-> FALSE,
             failedAt |-> 0, notifications |-> <<>>]

MirrorIdle ==
  /\ mirror = NoMirror
  /\ providerEvents = {}

\* the WebhookHandler as constructed: not listening, no interval timer set
NoListener == [isListening |-> FALSE, intervals |-> 0, checks |-> 0,
               signals |-> 0]

ListenIdle == webhook = NoListener

----------------------------------------------------------------------------
(* Learning and estimation requests *)

MaxRecords == 2
HistoryCap == 1000

TaskTypes == {"work", "shopping", "other"}

\* how a task presents itself to classifyTask
TaskShapes ==
  {[project |-> "work", keywords |-> <<"other">>, title |-> {"kaimono"}],
   [project |-> "", keywords |-> <<"shopping">>, title |-> {"kaigi"}],
   [project |-> "", keywords |-> <<>>, title |-> {"kaigi", "kounyuu"}],
   [project |-> "", keywords |-> <<>>, title |-> {}]}

LearnTask(p, c, e) ==
  [priority |-> p, project |-> c.project, keywords |-> c.keywords,
   title |-> c.title, estimation |-> e]

\* tasks whose actual time is recorded: with and without a stored estimation
RecordedTasks ==
  {LearnTask(2, c, e) : c \in TaskShapes, e \in {NoRecord, Est(12, 18, 24, 6, 60)}}

\* tasks an estimation is requested for: every priority
EstTasks == {LearnTask(p, c, NoRecord) : p \in 1..3, c \in TaskShapes}

Actual(a, b, c, d) == [incubation |-> a, design |-> b, implementation |-> c,
                       improvement |-> d]

ActualSet == {Actual(20, 20, 20, 20), Actual(12, 18, 24, 6),
              Actual(0, 0, 0, 0), Actual(5, 5, 30, 0)}

NoEstimate == [none |-> TRUE]
NoInsights == [status |-> "none"]

LearnIdle ==
  /\ learningData = [t \in TaskTypes |-> NoRecord]
  /\ taskHistory = 0
  /\ estimate = NoEstimate
  /\ insights = NoInsights

\* recordActualTime(task, actualTime)
recordActualTime(task, actualTime) ==
  /\ taskHistory < MaxRecords
  /\ taskHistory' = Min2(taskHistory + 1, HistoryCap)
  /\ learningData' =
       updateLearningData(learningData, task,
                          IF task.estimation = NoRecord
                          THEN getDefaultEstimation ELSE task.estimation,
                          actualTime)
  /\ UNCHANGED <<estimate, insights>>

\* learningEngine.getImprovedEstimation(task)
RequestEstimation(task) ==
  /\ estimate' = [task |-> task,
                  estimation |-> getImprovedEstimation(learningData, task)]
  /\ UNCHANGED <<learningData, taskHistory, insights>>

\* the sum of the fractions in the sequence
RECURSIVE RSum(_)
RSum(fractions) ==
  IF fractions = <<>> THEN Rat(0, 1)
  ELSE RAdd(Head(fractions), RSum(Tail(fractions)))

\* getLearningInsights: the task types learned, their accuracies and the mean
\* of these, then the length of the stored history, read from localStorage
\* outside any try block
getLearningInsights(data, history, readFails) ==
  LET taskTypes == {t \in DOMAIN data : data[t] # NoRecord}
      accuracyByType == [t \in taskTypes |-> data[t].estimationAccuracy]
      listed == CHOOSE q \in [1..Cardinality(taskTypes) -> taskTypes] :
                  \A t \in taskTypes : \E k \in DOMAIN q : q[k] = t
      totalAccuracy == RSum([k \in 1..Cardinality(taskTypes) |->
                               accuracyByType[listed[k]]])
      overallAccuracy == IF Cardinality(taskTypes) > 0
                         THEN Rat(totalAccuracy.n,
                                  totalAccuracy.d * Cardinality(taskTypes))
                         ELSE Rat(0, 1)
  IN IF readFails THEN [status |-> "thrown"]
     ELSE [status |-> "returned", taskTypes |-> taskTypes,
           accuracyByType |-> accuracyByType,
           overallAccuracy |-> overallAccuracy,
           totalTasksLearned |-> history]

\* a call of learningEngine.getLearningInsights(); the storage read works or
\* throws
GetLearningInsights(readFails) ==
  /\ insights' = getLearningInsights(learningData, taskHistory, readFails)
  /\ UNCHANGED <<learningData, taskHistory, estimate>>

InitLearn ==
  /\ clock = At(Monday, 8, 0)
  /\ calendar = <<>>
  /\ failDays = {}
  /\ workingHours = "default"
  /\ call = [none |-> TRUE]
  /\ result = [status |-> "pending"]
  /\ LearnIdle
  /\ HookIdle
  /\ ListenIdle
  /\ StoreIdle
  /\ MirrorIdle
  /\ ReschedIdle

NextLearn ==
  \/ \E t \in RecordedTasks, a \in ActualSet :
       recordActualTime(t, a) /\ UNCHANGED <<envVars, schedVars, reschedVars, hookVars, storeVars, mirrorVars, listenVars>>
  \/ \E t \in EstTasks :
       RequestEstimation(t) /\ UNCHANGED <<envVars, schedVars, reschedVars, hookVars, storeVars, mirrorVars, listenVars>>
  \/ \E readFails \in BOOLEAN :
       GetLearningInsights(readFails)
         /\ UNCHANGED <<envVars, schedVars, reschedVars, hookVars, storeVars, mirrorVars, listenVars>>

SpecLearn == InitLearn /\ [][NextLearn]_vars

\* C8: every Estimation the Estimator returns satisfies
\* incubation + design + implementation + improvement = total, for every
\* priority and with or without a Learning Record for the task's type.
C8_PhasesSumToTotal ==
  estimate # NoEstimate =>
    Total4(estimate.estimation) = estimate.estimation.total

----------------------------------------------------------------------------
(* A direct scheduleTask call *)

InitEnv ==
  /\ clock \in NowSet
  /\ calendar \in SeqsUpTo(BusyPool, MaxBusy)
  /\ failDays \in {{}, {Monday}}
  /\ workingHours \in WorkingHoursSet

InitSched ==
  /\ InitEnv
  /\ LearnIdle
  /\ HookIdle
  /\ ListenIdle
  /\ StoreIdle
  /\ MirrorIdle
  /\ ReschedIdle
  /\ call \in [task : {[id |-> 1, dueDate |-> d, dueIsDate |-> TRUE] : d \in DueSet},
               estimation : EstimationSet,
               bufferTime : BufferSet]
  /\ result = [status |-> "pending"]

CallScheduleTask ==
  /\ result.status = "pending"
  /\ result' = scheduleTask(call.task, call.estimation, Hours(workingHours),
                            call.bufferTime, clock, calendar, failDays)
  /\ UNCHANGED <<envVars, call, learnVars, reschedVars, hookVars, storeVars, mirrorVars, listenVars>>

NextSched == CallScheduleTask

SpecSched == InitSched /\ [][NextSched]_vars

----------------------------------------------------------------------------
(* Properties of scheduleTask and findAvailableTimeSlots (SpecSched) *)

Returned == result.status = "ok"
Searched == result.status \in {"ok", "CapacityExceeded"}

\* C3: the blocks a successful scheduleTask returns each have end > start,
\* are listed chronologically without overlap, and honor the phase order:
\* a block of a later phase starts only after every block of an earlier
\* phase has ended.
C3_BlocksOrderedDisjoint ==
  Returned =>
    LET ev == result.events IN
      /\ \A i \in 1..Len(ev) : ev[i].endTime > ev[i].startTime
      /\ \A i, j \in 1..Len(ev) :
            i < j => /\ ev[i].endTime <= ev[j].startTime
                     /\ PhaseIndex(ev[i].phase) <= PhaseIndex(ev[j].phase)
      /\ \A i, j \in 1..Len(ev) :
            PhaseIndex(ev[i].phase) < PhaseIndex(ev[j].phase)
              => ev[i].endTime <= ev[j].startTime

\* a success whose blocks span two slots, one phase being split in two
C3_Witness ==
  /\ Returned
  /\ \E i \in 1..(Len(result.events) - 1) :
        /\ result.events[i].phase = result.events[i + 1].phase
        /\ DayOf(result.events[i].startTime)
             # DayOf(result.events[i + 1].startTime)
  /\ Len(result.events) >= 4

\* C4: every block of a successful scheduleTask ends at or before the
\* task's deadline.
C4_BlocksEndByDeadline ==
  Returned =>
    \A i \in 1..Len(result.events) :
      result.events[i].endTime <= call.task.dueDate

\* C5: no free slot starts before rangeStart (= now), hence no block of
\* scheduleTask starts before now.
C5_NothingBeforeNow ==
  Searched =>
    /\ \A i \in 1..Len(result.slots) : result.slots[i].start >= clock
    /\ \A i \in 1..Len(result.events) : result.events[i].startTime >= clock

\* the busy intervals the provider reported for the day of instant t
ReportedFor(t) ==
  LET cfg == Hours(workingHours)[getDayOfWeek(t)]
      reported == getEvents(calendar, SetHours(t, cfg.startH, cfg.startM),
                            SetHours(t, cfg.endH, cfg.endM))
  IN IF DayOf(t) \in failDays THEN {}
     ELSE {reported[i] : i \in 1..Len(reported)}

\* C6: no free slot overlaps a busy interval reported for its day, nor
\* comes closer than bufferTime to one.
C6_SlotsClearOfBusy ==
  Searched =>
    \A i \in 1..Len(result.slots) :
      \A e \in ReportedFor(result.slots[i].start) :
        \/ result.slots[i].end + call.bufferTime <= e.start
        \/ e.end + call.bufferTime <= result.slots[i].start

\* C7: every enabled calendar day from the day of rangeStart through the
\* day of rangeEnd is examined, the deadline's own day included.
C7_EveryDayExamined ==
  (Searched /\ clock <= call.task.dueDate) =>
    {DayOf(result.dates[i]) : i \in 1..Len(result.dates)}
      = {d \in DayOf(clock)..DayOf(call.task.dueDate) :
           Hours(workingHours)[d % 7].enabled}

----------------------------------------------------------------------------
(* The rescheduler with its two entry points *)

Block(id, phase, d, h1, m1, h2, m2, g) ==
  [taskId |-> id, phase |-> phase, startTime |-> At(d, h1, m1),
   endTime |-> At(d, h2, m2), googleEventId |-> g]

AppTask(id, due, est, blocks) ==
  [id |-> id, status |-> "todo", priority |-> 2, dueDate |-> due,
   dueIsDate |-> TRUE, estimation |-> est, calendarEvents |-> blocks,
   eventsAreDates |-> TRUE,
   scheduledStartDate |-> IF blocks = <<>> THEN NoDate ELSE blocks[1].startTime,
   scheduledEndDate |-> IF blocks = <<>> THEN NoDate
                        ELSE blocks[Len(blocks)].endTime,
   lastRescheduled |-> NoDate, reschedulingHistory |-> <<>>]

\* where a 60-minute task lands on a free Monday with a 15-minute buffer
PlacedBlocks(id) ==
  <<Block(id, "incubation", Monday, 9, 0, 9, 12, "g1"),
    Block(id, "design", Monday, 9, 27, 9, 45, "g1"),
    Block(id, "implementation", Monday, 10, 0, 10, 24, "g1"),
    Block(id, "improvement", Monday, 10, 39, 10, 45, "g1")>>

\* one block in the afternoon
AfternoonBlock(id) ==
  <<Block(id, "implementation", Monday, 14, 0, 15, 0, "g1")>>

\* more work than the working hours of eight days hold, also at 70%
LongEstimation == Est(0, 0, 6000, 0, 6000)

\* the task objects a task id can stand for at the start
TaskChoices(id) ==
  {AppTask(id, At(Monday, 12, 0), NoRecord, PlacedBlocks(id)),
   AppTask(id, At(Monday, 12, 0), Est(12, 18, 24, 6, 60), AfternoonBlock(id)),
   AppTask(id, At(0, 12, 0), NoRecord, AfternoonBlock(id)),
   AppTask(id, At(Monday, 12, 0), NoRecord, <<>>),
   AppTask(id, NoDate, NoRecord, <<>>),
   AppTask(id, At(Monday, 12, 0), LongEstimation, <<>>)}

\* the task lists the application starts with: any first task, and a second
\* one due monday noon that is scheduled or not yet scheduled
TaskTables ==
  {<<a, b>> : a \in TaskChoices(1),
              b \in {AppTask(2, At(Monday, 12, 0), NoRecord, PlacedBlocks(2)),
                     AppTask(2, At(Monday, 12, 0), NoRecord, <<>>)}}

GoogleEventIds == {"g1", "gx"}

\* the task lists a direct call is made with
TaskLists == {<<>>, <<1>>, <<2>>, <<1, 2>>, <<1, 1>>}

Init ==
  /\ clock = At(Monday, 8, 0)
  /\ calendar \in {<<>>, <<Busy(Monday, 9, 0, 18, 0)>>}
  /\ failDays = {}
  /\ workingHours = "default"
  /\ call = [none |-> TRUE]
  /\ result = [status |-> "pending"]
  /\ LearnIdle
  /\ HookIdle
  /\ ListenIdle
  /\ StoreIdle
  /\ MirrorIdle
  /\ tasks \in TaskTables
  /\ storedTasks = [i \in 1..Len(tasks) |-> JsonRoundTrip(tasks[i])]
  /\ reschedulingInProgress = FALSE
  /\ passes = [p \in Calls |-> IdlePass]
  /\ eventStore = <<>>
  /\ eventListeners = <<"sync">>
  /\ delivered = <<>>

Next ==
  \/ \E p \in Calls, g \in GoogleEventIds :
       HandleCalendarChange(p, g) /\ UNCHANGED <<envVars, schedVars, learnVars, hookVars, storeVars, mirrorVars, listenVars>>
  \/ \E p \in Calls :
       AffectedTasksLoaded(p) /\ UNCHANGED <<envVars, schedVars, learnVars, hookVars, storeVars, mirrorVars, listenVars>>
  \/ \E p \in Calls, ids \in TaskLists :
       RescheduleAffectedTasks(p, ids, "manual_adjustment", Mins(15))
         /\ UNCHANGED <<envVars, schedVars, learnVars, hookVars, storeVars, mirrorVars, listenVars>>
  \/ \E p \in Calls :
       RescheduleNext(p) /\ UNCHANGED <<envVars, schedVars, learnVars, hookVars, storeVars, mirrorVars, listenVars>>

Spec == Init /\ [][Next]_vars

----------------------------------------------------------------------------
(* Properties of the rescheduler (Spec) *)

\* a pass that has begun and not yet returned
InProgress(p) == passes[p].pc \in {"affected", "loop"}

\* C1: at most one rescheduling pass is processing tasks at any moment,
\* whichever entry point started it
C1_OnePassAtATime ==
  Cardinality({p \in Calls : passes[p].pc = "loop"}) <= 1

\* C2: a handleCalendarChange call made while an earlier handleCalendarChange
\* pass is in progress returns at once without an error; it stores no
\* ReschedulingEvent, notifies no listener, changes no task and leaves the
\* guard held
C2_SecondCallNoOp ==
  [][\A p \in Calls :
       (/\ passes[p].pc = "idle"
        /\ passes'[p].pc # "idle"
        /\ passes'[p].entry = "calendar"
        /\ \E q \in Calls : passes[q].entry = "calendar" /\ InProgress(q))
       => /\ passes'[p].pc = "dropped"
          /\ eventStore' = eventStore
          /\ delivered' = delivered
          /\ tasks' = tasks
          /\ storedTasks' = storedTasks
          /\ reschedulingInProgress /\ reschedulingInProgress']_vars

\* a call was dropped and the pass that holds the guard is still in progress
C2_Witness ==
  \E p, q \in Calls :
    /\ passes[p].pc = "dropped"
    /\ passes[q].entry = "calendar"
    /\ InProgress(q)
    /\ reschedulingInProgress

\* C9: every task whose strict allocation failed with CapacityExceeded, with
\* or without scheduled blocks, was put through the relaxation ladder
C9_LadderAfterCapacityExceeded ==
  \A p \in Calls : \A i \in 1..Len(passes[p].paths) :
    passes[p].paths[i].path.strict = "CapacityExceeded"
      => passes[p].paths[i].path.ladder # "not run"

\* C10: when the strict allocation fails with CapacityExceeded and the
\* ladder's 7-day extension succeeds, the ReschedulingEvent has a change entry
\* for the task whose newSchedule is the window of the blocks placed
C10_ExtensionRecordsChange ==
  \A p \in Calls : \A i \in 1..Len(passes[p].paths) :
    LET done == passes[p].paths[i]
        changes == passes[p].event.changes
    IN (done.path.strict = "CapacityExceeded" /\ done.path.ladder = "a")
         => \E k \in 1..Len(changes) :
               /\ changes[k].taskId = done.taskId
               /\ changes[k].newSchedule = done.path.window

\* the record of the task a loop turn of pass p has just finished
JustDone(p) == passes'[p].paths[Len(passes'[p].paths)]

\* pass p takes a turn of its for-loop in this step
LoopTurn(p) ==
  /\ passes[p].pc = "loop"
  /\ Len(passes'[p].paths) = Len(passes[p].paths) + 1

\* C11: when the strict allocation and every relaxation fail for a task, the
\* task object is left as it was (blocks, window, lastRescheduled, history),
\* no change entry is pushed, and the pass goes on: to the next task of the
\* batch, or after the last one to its return with the event saved
C11_FailedTaskSkipped ==
  [][\A p \in Calls :
       (/\ LoopTurn(p)
        /\ JustDone(p).path.strict # "ok"
        /\ JustDone(p).path.ladder = "none")
       => /\ tasks'[JustDone(p).taskId] = tasks[JustDone(p).taskId]
          /\ passes'[p].event.changes = passes[p].event.changes
          /\ passes'[p].queue = Tail(passes[p].queue)
          /\ IF passes'[p].queue = <<>>
             THEN /\ passes'[p].pc = "returned"
                  /\ eventStore' = Append(eventStore, passes'[p].event)
             ELSE passes'[p].pc = "loop"]_vars

\* a returned pass over two tasks: for the first the ladder failed on every
\* rung, the second was rescheduled, and the event is in the store
C11_Witness ==
  \E p \in Calls :
    /\ passes[p].pc = "returned"
    /\ Len(passes[p].paths) = 2
    /\ passes[p].paths[1].path.strict = "CapacityExceeded"
    /\ passes[p].paths[1].path.ladder = "none"
    /\ passes[p].paths[2].path.updated
    /\ \E k \in 1..Len(eventStore) : eventStore[k] = passes[p].event

\* the task object pass p is about to process
Before(p) ==
  IF passes[p].entry = "calendar" THEN Head(passes[p].copies)
  ELSE tasks[Head(passes[p].queue)]

\* earliest start and latest end of a non-empty sequence of blocks
Window(blocks) ==
  [start |-> CHOOSE t \in {blocks[i].startTime : i \in 1..Len(blocks)} :
               \A i \in 1..Len(blocks) : t <= blocks[i].startTime,
   end |-> CHOOSE t \in {blocks[i].endTime : i \in 1..Len(blocks)} :
             \A i \in 1..Len(blocks) : t >= blocks[i].endTime]

\* the change entries pass p pushes in this step
Pushed(p) ==
  SubSeq(passes'[p].event.changes, Len(passes[p].event.changes) + 1,
         Len(passes'[p].event.changes))

\* C12: for a task that had a window and was given new blocks, one change
\* entry {taskId, oldSchedule, newSchedule} is pushed when the new window
\* differs from the old one in start or end, none when the two are the same;
\* no event holds two change entries for one task
C12_ChangeIffWindowDiffers ==
  /\ [][\A p \in Calls :
          (/\ LoopTurn(p)
           /\ JustDone(p).path.updated
           /\ Len(Before(p).calendarEvents) > 0)
          => LET old == Window(Before(p).calendarEvents)
                 new == JustDone(p).path.window
             IN /\ passes[p].event.changes
                     = SubSeq(passes'[p].event.changes, 1,
                              Len(passes[p].event.changes))
                /\ Pushed(p) = IF old # new
                               THEN <<[taskId |-> JustDone(p).taskId,
                                       oldSchedule |-> old,
                                       newSchedule |-> new]>>
                               ELSE <<>>]_vars
  /\ [](\A p \in Calls :
          passes[p].event # NoEvent =>
            \A j, k \in 1..Len(passes[p].event.changes) :
              passes[p].event.changes[j].taskId
                = passes[p].event.changes[k].taskId => j = k)

\* one returned pass rescheduled a task to the window it already had and
\* recorded nothing; another moved a task and recorded the change; a task
\* processed twice in one pass has one entry
C12_Witness ==
  /\ \E p \in Calls :
       /\ passes[p].pc = "returned"
       /\ passes[p].paths # <<>>
       /\ passes[p].paths[1].path.updated
       /\ passes[p].paths[1].path.window = Window(PlacedBlocks(1))
       /\ passes[p].event.changes = <<>>
  /\ \E p \in Calls :
       /\ passes[p].pc = "returned"
       /\ Len(passes[p].paths) = 2
       /\ passes[p].paths[1].taskId = passes[p].paths[2].taskId
       /\ passes[p].paths[1].path.updated /\ passes[p].paths[2].path.updated
       /\ Len(passes[p].event.changes) = 1
       /\ passes[p].event.changes[1].oldSchedule = Window(AfternoonBlock(1))
       /\ passes[p].event.changes[1].newSchedule = Window(PlacedBlocks(1))

----------------------------------------------------------------------------
(* The rescheduler starting with a history of earlier events in the store *)

\* the k-th last event of an earlier session
OlderEvent(k) ==
  [id |-> 0 - k, triggeredBy |-> "calendar_change", affectedTasks |-> <<>>,
   timestamp |-> 0, changes |-> <<>>]

\* a stored history of n earlier events, oldest first
OlderHistory(n) == [i \in 1..n |-> OlderEvent(n + 1 - i)]

InitHistory ==
  /\ clock = At(Monday, 8, 0)
  /\ calendar = <<>>
  /\ failDays = {}
  /\ workingHours = "default"
  /\ call = [none |-> TRUE]
  /\ result = [status |-> "pending"]
  /\ LearnIdle
  /\ HookIdle
  /\ ListenIdle
  /\ StoreIdle
  /\ MirrorIdle
  /\ tasks \in {<<a, AppTask(2, At(Monday, 12, 0), NoRecord, <<>>)>> :
                  a \in TaskChoices(1)}
  /\ storedTasks = [i \in 1..Len(tasks) |-> JsonRoundTrip(tasks[i])]
  /\ reschedulingInProgress = FALSE
  /\ passes = [p \in Calls |-> IdlePass]
  /\ eventStore \in {OlderHistory(n) : n \in {0, EventCap - 1, EventCap}}
  /\ eventListeners = <<"sync">>
  /\ delivered = <<>>

SpecHistory == InitHistory /\ [][Next]_vars

\* pass p comes to the end of a rescheduleAffectedTasks call in this step
CallEnds(p) ==
  /\ passes[p].pc \in {"idle", "loop"}
  /\ passes'[p].pc = "returned"
  /\ passes'[p].entry \in {"calendar", "direct"}

\* the last n elements of a sequence
LastOf(seq, n) ==
  IF Len(seq) <= n THEN seq ELSE SubSeq(seq, Len(seq) - n + 1, Len(seq))

----------------------------------------------------------------------------
(* The rescheduler with listeners coming and going *)

ListenerIds == {"sync", "bad"}

InitListeners ==
  /\ clock = At(Monday, 8, 0)
  /\ calendar = <<>>
  /\ failDays = {}
  /\ workingHours = "default"
  /\ call = [none |-> TRUE]
  /\ result = [status |-> "pending"]
  /\ LearnIdle
  /\ HookIdle
  /\ ListenIdle
  /\ StoreIdle
  /\ MirrorIdle
  /\ tasks = <<AppTask(1, At(Monday, 12, 0), Est(12, 18, 24, 6, 60),
                       AfternoonBlock(1)),
               AppTask(2, At(Monday, 12, 0), NoRecord, <<>>)>>
  /\ storedTasks = [i \in 1..Len(tasks) |-> JsonRoundTrip(tasks[i])]
  /\ reschedulingInProgress = FALSE
  /\ passes = [p \in Calls |-> IdlePass]
  /\ eventStore = <<>>
  /\ eventListeners = <<>>
  /\ delivered = <<>>

NextListeners ==
  \/ \E id \in ListenerIds :
       AddEventListener(id) /\ UNCHANGED <<envVars, schedVars, learnVars, hookVars, storeVars, mirrorVars, listenVars>>
  \/ \E id \in ListenerIds :
       RemoveEventListener(id) /\ UNCHANGED <<envVars, schedVars, learnVars, hookVars, storeVars, mirrorVars, listenVars>>
  \/ \E p \in Calls :
       HandleCalendarChange(p, "g1") /\ UNCHANGED <<envVars, schedVars, learnVars, hookVars, storeVars, mirrorVars, listenVars>>
  \/ \E p \in Calls :
       AffectedTasksLoaded(p) /\ UNCHANGED <<envVars, schedVars, learnVars, hookVars, storeVars, mirrorVars, listenVars>>
  \/ \E p \in Calls :
       RescheduleAffectedTasks(p, <<1>>, "manual_adjustment", Mins(15))
         /\ UNCHANGED <<envVars, schedVars, learnVars, hookVars, storeVars, mirrorVars, listenVars>>
  \/ \E p \in Calls :
       RescheduleNext(p) /\ UNCHANGED <<envVars, schedVars, learnVars, hookVars, storeVars, mirrorVars, listenVars>>

SpecListeners == InitListeners /\ [][NextListeners]_vars

\* the calls of the listeners in list order, each with the event
Fanout(listeners, event) ==
  [i \in 1..Len(listeners) |-> <<listeners[i], event>>]

\* C14: the end of every pass, started by a calendar change or by a direct
\* rescheduleAffectedTasks call, delivers the pass's event once to each
\* listener registered at that moment and to no other; nothing else delivers
C14_EveryPassDelivers ==
  /\ [][\A p \in Calls :
          CallEnds(p)
            => delivered' = delivered \o Fanout(eventListeners, passes'[p].event)]_vars
  /\ [][(\A p \in Calls : ~CallEnds(p)) => delivered' = delivered]_vars

\* C15: at the end of a handleCalendarChange pass the listeners are called in
\* registration order; one that throws stops neither the calls of those
\* registered after it nor the return of the pass with the guard released
C15_ThrowingListenerIsolated ==
  [][\A p \in Calls :
       (CallEnds(p) /\ passes[p].entry = "calendar")
         => /\ delivered' = delivered \o Fanout(eventListeners, passes'[p].event)
            /\ passes'[p].pc = "returned"
            /\ ~reschedulingInProgress']_vars

\* a calendar pass has returned and released the guard; its event went first
\* to the throwing listener, then to the one registered after it
C15_Witness ==
  \E p \in Calls :
    /\ passes[p].pc = "returned"
    /\ passes[p].entry = "calendar"
    /\ passes[p].event # NoEvent
    /\ ~reschedulingInProgress
    /\ Len(delivered) >= 2
    /\ delivered[1] = <<"bad", passes[p].event>>
    /\ delivered[2] = <<"sync", passes[p].event>>

----------------------------------------------------------------------------
(* The sync hook useRealTimeSync: manual trigger, pending event, timers *)

\* the ids of the tasks triggerReschedulingCheck selects: not done, with blocks
tasksNeedingReschedule ==
  SelectSeq([i \in 1..Len(tasks) |-> i],
            LAMBDA i : /\ tasks[i].status # "done"
                       /\ Len(tasks[i].calendarEvents) > 0)

\* triggerReschedulingCheck up to the first await of the call it makes
TriggerReschedulingCheck(p) ==
  /\ tasksNeedingReschedule # <<>>
  /\ RescheduleAffectedTasks(p, tasksNeedingReschedule, "manual_adjustment",
                             Mins(15))
  /\ UNCHANGED hookVars

\* handleReschedulingEvent: the event becomes the pending one and a timer is
\* set that applies it two seconds later
handleReschedulingEvent(event) ==
  /\ pendingRescheduling' = event
  /\ timers' = timers \cup {event}
  /\ UNCHANGED rejected

\* triggerReschedulingCheck after the call has returned its event
EventReturned(p) ==
  /\ passes[p].pc = "returned"
  /\ passes[p].entry = "direct"
  /\ passes' = [passes EXCEPT ![p].pc = "handled"]
  /\ IF Len(passes[p].event.changes) > 0
     THEN handleReschedulingEvent(passes[p].event)
     ELSE UNCHANGED hookVars
  /\ UNCHANGED <<tasks, storedTasks, reschedulingInProgress, eventStore,
                 eventListeners, delivered>>

\* event.changes.find(c => c.taskId === task.id), as a sequence of none or one
changeFor(event, task) ==
  LET found == SelectSeq(event.changes, LAMBDA c : c.taskId = task.id)
  IN IF found = <<>> THEN <<>> ELSE <<Head(found)>>

\* the list applyRescheduling hands to onTasksUpdate
applyRescheduling(event, list) ==
  [i \in 1..Len(list) |->
     IF changeFor(event, list[i]) = <<>> THEN list[i]
     ELSE [list[i] EXCEPT
             !.scheduledStartDate = changeFor(event, list[i])[1].newSchedule.start,
             !.scheduledEndDate = changeFor(event, list[i])[1].newSchedule.end,
             !.lastRescheduled = event.timestamp,
             !.reschedulingHistory = Append(@, event.id)]]

\* the timer set by handleReschedulingEvent fires: applyRescheduling(event)
TimerFires(event) ==
  /\ event \in timers
  /\ tasks' = applyRescheduling(event, tasks)
  /\ pendingRescheduling' = NoEvent
  /\ timers' = timers \ {event}
  /\ UNCHANGED <<rejected, storedTasks, reschedulingInProgress, passes,
                 eventStore, eventListeners, delivered>>

\* rejectRescheduling: the pending event is discarded
RejectRescheduling ==
  /\ pendingRescheduling # NoEvent
  /\ rejected' = rejected \cup {pendingRescheduling.id}
  /\ pendingRescheduling' = NoEvent
  /\ UNCHANGED <<timers, reschedVars>>

InitHook ==
  /\ clock = At(Monday, 8, 0)
  /\ calendar \in {<<>>, <<Busy(Monday, 9, 0, 18, 0)>>}
  /\ failDays = {}
  /\ workingHours = "default"
  /\ call = [none |-> TRUE]
  /\ result = [status |-> "pending"]
  /\ LearnIdle
  /\ HookIdle
  /\ ListenIdle
  /\ StoreIdle
  /\ MirrorIdle
  /\ tasks \in TaskTables
  /\ storedTasks = [i \in 1..Len(tasks) |-> JsonRoundTrip(tasks[i])]
  /\ reschedulingInProgress = FALSE
  /\ passes = [p \in Calls |-> IdlePass]
  /\ eventStore = <<>>
  /\ eventListeners = <<"sync">>
  /\ delivered = <<>>

NextHook ==
  \/ \E p \in Calls :
       TriggerReschedulingCheck(p) /\ UNCHANGED <<envVars, schedVars, learnVars, storeVars, mirrorVars, listenVars>>
  \/ \E p \in Calls :
       RescheduleNext(p) /\ UNCHANGED <<envVars, schedVars, learnVars, hookVars, storeVars, mirrorVars, listenVars>>
  \/ \E p \in Calls :
       EventReturned(p) /\ UNCHANGED <<envVars, schedVars, learnVars, storeVars, mirrorVars, listenVars>>
  \/ \E event \in timers :
       TimerFires(event) /\ UNCHANGED <<envVars, schedVars, learnVars, storeVars, mirrorVars, listenVars>>
  \/ RejectRescheduling /\ UNCHANGED <<envVars, schedVars, learnVars, storeVars, mirrorVars, listenVars>>

SpecHook == InitHook /\ [][NextHook]_vars

\* C16: an event discarded with rejectRescheduling before it was applied is
\* not applied afterwards: the step in which its timer fires changes no task
C16_RejectedNeverApplied ==
  [][\A event \in timers :
       (event \notin timers' /\ event.id \in rejected) => tasks' = tasks]_vars

----------------------------------------------------------------------------
(* Saving and loading: JSON.stringify, JSON.parse and the three load paths *)

\* a field that holds no value (undefined: JSON.stringify leaves it out)
Absent == [type |-> "undefined"]

\* a Date object and the ISO string JSON.stringify writes for it
DateValue(t) == [type |-> "Date", ms |-> t]
IsoString(t) == [type |-> "string", ms |-> t]

\* Date.prototype.toJSON, then JSON.parse: a Date comes back as its ISO string
parseStringified(v) == IF v.type = "Date" THEN IsoString(v.ms) ELSE v

\* new Date(isoString)
newDate(v) == DateValue(v.ms)

\* x ? new Date(x) : undefined
newDateIfPresent(v) == IF v = Absent THEN Absent ELSE newDate(v)

\* JSON.parse(JSON.stringify(task))
parsedTask(task) ==
  [dueDate |-> parseStringified(task.dueDate),
   createdAt |-> parseStringified(task.createdAt),
   updatedAt |-> parseStringified(task.updatedAt),
   calendarEvents |->
     [i \in 1..Len(task.calendarEvents) |->
        [startTime |-> parseStringified(task.calendarEvents[i].startTime),
         endTime |-> parseStringified(task.calendarEvents[i].endTime)]],
   scheduledStartDate |-> parseStringified(task.scheduledStartDate),
   scheduledEndDate |-> parseStringified(task.scheduledEndDate),
   lastRescheduled |-> parseStringified(task.lastRescheduled)]

\* JSON.parse(JSON.stringify(event)) of a ReschedulingEvent
parsedEvent(event) ==
  [timestamp |-> parseStringified(event.timestamp),
   changes |->
     [i \in 1..Len(event.changes) |->
        [taskId |-> event.changes[i].taskId,
         oldSchedule |->
           [start |-> parseStringified(event.changes[i].oldSchedule.start),
            end |-> parseStringified(event.changes[i].oldSchedule.end)],
         newSchedule |->
           [start |-> parseStringified(event.changes[i].newSchedule.start),
            end |-> parseStringified(event.changes[i].newSchedule.end)]]]]

\* loadFromStorage(STORAGE_KEYS.TASKS): four fields are made Dates again
loadFromStorage(task) ==
  [parsedTask(task) EXCEPT !.dueDate = newDateIfPresent(@),
                           !.createdAt = newDate(@),
                           !.updatedAt = newDate(@)]

MomentSet == {At(Monday, 9, 0), At(Monday, 10, 45)}

StoreBlocks ==
  {<<>>,
   <<[startTime |-> DateValue(At(Monday, 9, 0)),
      endTime |-> DateValue(At(Monday, 10, 45))]>>}

\* the tasks handed to saveToStorage
StoreTasks ==
  {[dueDate |-> due, createdAt |-> DateValue(c), updatedAt |-> DateValue(u),
    calendarEvents |-> b, scheduledStartDate |-> w, scheduledEndDate |-> w,
    lastRescheduled |-> l] :
     due \in {Absent} \cup {DateValue(t) : t \in MomentSet},
     c \in MomentSet, u \in MomentSet, b \in StoreBlocks,
     w \in {Absent, DateValue(At(Monday, 9, 0))},
     l \in {Absent, DateValue(At(Monday, 8, 0))}}

\* the events handed to saveReschedulingEvent
StoreEvents ==
  {[timestamp |-> DateValue(t), changes |-> ch] :
     t \in MomentSet,
     ch \in {<<>>,
             <<[taskId |-> 1,
                oldSchedule |-> [start |-> DateValue(At(Monday, 14, 0)),
                                 end |-> DateValue(At(Monday, 15, 0))],
                newSchedule |-> [start |-> DateValue(At(Monday, 9, 0)),
                                 end |-> DateValue(At(Monday, 10, 45))]]>>}}

\* the application saves its tasks and loads them at its next start
LoadTaskInApp ==
  /\ document.kind = "task"
  /\ reloaded = [none |-> TRUE]
  /\ reloaded' = [path |-> "loadFromStorage",
                  value |-> loadFromStorage(document.value)]
  /\ UNCHANGED document

\* the Rescheduler reads the saved tasks in getAffectedTasks
LoadTaskInRescheduler ==
  /\ document.kind = "task"
  /\ reloaded = [none |-> TRUE]
  /\ reloaded' = [path |-> "getAffectedTasks",
                  value |-> parsedTask(document.value)]
  /\ UNCHANGED document

\* getReschedulingHistory reads a saved event
LoadEventInHistory ==
  /\ document.kind = "event"
  /\ reloaded = [none |-> TRUE]
  /\ reloaded' = [path |-> "getReschedulingHistory",
                  value |-> parsedEvent(document.value)]
  /\ UNCHANGED document

InitStore ==
  /\ clock = At(Monday, 8, 0)
  /\ calendar = <<>>
  /\ failDays = {}
  /\ workingHours = "default"
  /\ call = [none |-> TRUE]
  /\ result = [status |-> "pending"]
  /\ LearnIdle
  /\ HookIdle
  /\ ListenIdle
  /\ ReschedIdle
  /\ MirrorIdle
  /\ document \in {[kind |-> "task", value |-> t] : t \in StoreTasks}
                    \cup {[kind |-> "event", value |-> e] : e \in StoreEvents}
  /\ reloaded = [none |-> TRUE]

NextStore ==
  \/ LoadTaskInApp
       /\ UNCHANGED <<envVars, schedVars, learnVars, reschedVars, hookVars, mirrorVars, listenVars>>
  \/ LoadTaskInRescheduler
       /\ UNCHANGED <<envVars, schedVars, learnVars, reschedVars, hookVars, mirrorVars, listenVars>>
  \/ LoadEventInHistory
       /\ UNCHANGED <<envVars, schedVars, learnVars, reschedVars, hookVars, mirrorVars, listenVars>>

SpecStore == InitStore /\ [][NextStore]_vars

\* C17: what a load path returns for a saved Task or ReschedulingEvent equals
\* the saved value in every field, each date a Date again
C17_RoundTrip ==
  reloaded # [none |-> TRUE] => reloaded.value = document.value

----------------------------------------------------------------------------
(* Failures of scheduleTask inside and outside a pass *)

\* C18: a task without a deadline makes scheduleTask fail with
\* MissingDeadline, and a rescheduling pass makes that one scheduleTask call
\* for it and no further one, the relaxation ladder included
C18_MissingDeadlineNotRetried ==
  \A p \in Calls : \A i \in 1..Len(passes[p].paths) :
    LET done == passes[p].paths[i]
    IN /\ tasks[done.taskId].dueDate = NoDate
            => done.path.strict \in {"MissingDeadline", "not run"}
       /\ done.path.strict = "MissingDeadline" => done.path.attempts = 1

\* C19: scheduleTask, called for a task with a deadline, answers an
\* estimation whose four phase minutes do not sum to its total with
\* InvalidEstimation, having asked for no availability and placed no block
C19_InvalidEstimationRejected ==
  (result.status # "pending"
     /\ call.task.dueDate # NoDate
     /\ Total4(call.estimation) # call.estimation.total)
    => /\ result.status = "InvalidEstimation"
       /\ result.dates = <<>>
       /\ result.events = <<>>

RECURSIVE SumTo(_, _)
\* f[1] + ... + f[n]
SumTo(f, n) == IF n = 0 THEN 0 ELSE f[n] + SumTo(f, n - 1)

\* the minutes of the four phases of the call's estimation, in ticks
PhaseTicks ==
  Mins(Total4(call.estimation))

\* the length of the given blocks, added up
BlockTicks(blocks) ==
  SumTo([i \in 1..Len(blocks) |-> blocks[i].endTime - blocks[i].startTime],
        Len(blocks))

\* C20: scheduleTask returns blocks that hold every phase minute, or fails
\* with CapacityExceeded because minutes are left over after the last slot;
\* the failure returns no block and reports the minutes left over and the
\* sum of the durations of all free slots
C20_CapacityExceededReport ==
  /\ Returned => BlockTicks(result.events) = PhaseTicks
  /\ result.status = "CapacityExceeded"
       => /\ result.events = <<>>
          /\ result.need > 0
          /\ result.need = PhaseTicks - BlockTicks(result.discarded)
          /\ result.available
               = SumTo([i \in 1..Len(result.slots) |-> result.slots[i].duration],
                       Len(result.slots))

\* a call failed after placing part of the work in the slots it found
C20_Witness ==
  /\ result.status = "CapacityExceeded"
  /\ result.discarded # <<>>
  /\ Len(result.slots) >= 2
  /\ result.need < PhaseTicks

----------------------------------------------------------------------------
(* Provider failures and working hours (SpecSched) *)

\* the slots of a list that start on the given day
SlotsOn(slots, day) == SelectSeq(slots, LAMBDA sl : DayOf(sl.start) = day)

\* the working window of a day as one slot
WholeWindow(day) ==
  LET cfg == Hours(workingHours)[day % 7]
  IN [start |-> At(day, cfg.startH, cfg.startM),
      end |-> At(day, cfg.endH, cfg.endM),
      duration |-> At(day, cfg.endH, cfg.endM) - At(day, cfg.startH, cfg.startM)]

\* C21: a day whose provider query fails contributes its whole working
\* window as one free slot, every other examined day contributes the slots
\* it has when no query fails, and the call ends as it does on its slots,
\* never with the provider's error
C21_FailedDayIsFree ==
  Searched =>
    /\ \A i \in 1..Len(result.dates) :
         LET day == DayOf(result.dates[i])
         IN SlotsOn(result.slots, day)
              = IF day \in failDays THEN <<WholeWindow(day)>>
                ELSE SlotsOn(findAvailableTimeSlots(
                               clock, call.task.dueDate, call.task.dueIsDate,
                               Hours(workingHours), call.bufferTime, calendar, {}),
                             day)
    /\ Len(result.slots)
         = SumTo([i \in 1..Len(result.dates) |->
                    Len(SlotsOn(result.slots, DayOf(result.dates[i])))],
                 Len(result.dates))

\* the query failed for monday, where the calendar has a busy interval, and
\* tuesday was examined too and gave a slot from its own (empty) calendar
C21_Witness ==
  /\ Searched
  /\ failDays = {Monday}
  /\ \E i \in 1..Len(calendar) : DayOf(calendar[i].start) = Monday
  /\ {DayOf(result.dates[i]) : i \in 1..Len(result.dates)} = {Monday, Tuesday}
  /\ SlotsOn(result.slots, Monday) = <<WholeWindow(Monday)>>
  /\ Len(SlotsOn(result.slots, Tuesday)) = 1

----------------------------------------------------------------------------
(* Mirroring a task's blocks to the provider: handleQuickAdd (App) and      *)
(* autoScheduleTasks (ScheduleView).  Both await scheduleTask, then await   *)
(* createEvent once per block inside one try block, and assign the task's   *)
(* calendarEvents after the loop.  A step is the code between two awaits.   *)

MirrorEntries == {"quickAdd", "autoSchedule"}

\* catch (error) and what follows it.  handleQuickAdd: the failure
\* notification, then setTasks with the task as it is, then the confirmation
\* for a task without calendarEvents.  autoScheduleTasks: console.error; the
\* task is neither pushed to updatedTasks nor handed to onTaskUpdate.
mirrorCaught(m, at) ==
  IF m.entry = "quickAdd"
  THEN [m EXCEPT !.pc = "done", !.failedAt = at, !.saved = TRUE,
                 !.notifications = m.notifications \o <<"failed", "added">>]
  ELSE [m EXCEPT !.pc = "done", !.failedAt = at]

\* after the for loop: calendarEvents = googleEvents, the task is stored
mirrorCompleted(m, googleEvents) ==
  [m EXCEPT !.pc = "done", !.googleEvents = googleEvents,
            !.calendarEvents = googleEvents, !.saved = TRUE,
            !.notifications =
               IF m.entry = "quickAdd"
               THEN m.notifications
                      \o <<IF Len(googleEvents) > 0 THEN "addedToCalendar"
                           ELSE "added">>
               ELSE m.notifications]

\* up to the first await createEvent: const calendarEvents = await scheduleTask(...)
StartMirroring(entry) ==
  /\ mirror.pc = "idle"
  /\ call.task.dueDate # NoDate
  /\ \E r \in {scheduleTask(call.task, call.estimation, Hours(workingHours),
                            call.bufferTime, clock, calendar, failDays)} :
       LET m == [mirror EXCEPT !.entry = entry, !.blocks = r.events, !.i = 1]
       IN mirror' = IF r.status # "ok" THEN mirrorCaught(m, 0)
                    ELSE IF r.events = <<>> THEN mirrorCompleted(m, <<>>)
                    ELSE [m EXCEPT !.pc = "creating"]
  /\ UNCHANGED providerEvents

\* createEvent settles for block i: the provider made event i, or the call threw
CreateEvent(ok) ==
  /\ mirror.pc = "creating"
  /\ IF ok
     THEN LET made == Append(mirror.googleEvents,
                             [block |-> mirror.blocks[mirror.i],
                              googleEventId |-> mirror.i])
          IN /\ providerEvents' = providerEvents \cup {mirror.i}
             /\ mirror' = IF mirror.i = Len(mirror.blocks)
                          THEN mirrorCompleted(mirror, made)
                          ELSE [mirror EXCEPT !.googleEvents = made,
                                              !.i = mirror.i + 1]
     ELSE /\ mirror' = mirrorCaught(mirror, mirror.i)
          /\ UNCHANGED providerEvents

InitMirror ==
  /\ clock \in NowSet
  /\ calendar \in {<<>>} \cup {<<b>> : b \in BusyPool}
  /\ failDays = {}
  /\ workingHours = "default"
  /\ call \in [task : {[id |-> 1, dueDate |-> d, dueIsDate |-> TRUE] :
                         d \in DueSet \ {NoDate}},
               estimation : EstimationSet,
               bufferTime : BufferSet]
  /\ result = [status |-> "pending"]
  /\ LearnIdle
  /\ HookIdle
  /\ ListenIdle
  /\ StoreIdle
  /\ ReschedIdle
  /\ MirrorIdle

NextMirror ==
  \/ \E entry \in MirrorEntries :
       StartMirroring(entry)
         /\ UNCHANGED <<envVars, schedVars, learnVars, reschedVars, hookVars, storeVars, listenVars>>
  \/ \E ok \in BOOLEAN :
       CreateEvent(ok)
         /\ UNCHANGED <<envVars, schedVars, learnVars, reschedVars, hookVars, storeVars, listenVars>>

SpecMirror == InitMirror /\ [][NextMirror]_vars

\* the provider event ids the task's recorded blocks refer to
Referenced == {mirror.calendarEvents[k].googleEventId :
                 k \in 1..Len(mirror.calendarEvents)}

\* C22: when createEvent fails for one block, the failure is reported, every
\* event already made in the provider is recorded on the task with its id,
\* and every other block is mirrored as well
C22_FailureAbortsOneBlock ==
  (mirror.pc = "done" /\ mirror.failedAt > 0) =>
    /\ "failed" \in {mirror.notifications[k] : k \in 1..Len(mirror.notifications)}
    /\ providerEvents \subseteq Referenced
    /\ providerEvents = (1..Len(mirror.blocks)) \ {mirror.failedAt}

----------------------------------------------------------------------------
(* Calendar changes against a store that holds finished tasks too           *)
(* (SpecCalendar)                                                           *)

StatusSet == {"todo", "done"}

\* a stored task: finished or not, with no block or one block that refers to
\* provider event g1 or g2
CalendarTaskChoices(id) ==
  {[AppTask(id, At(Monday, 12, 0), NoRecord, blocks) EXCEPT !.status = st] :
     st \in StatusSet,
     blocks \in {<<>>,
                 <<Block(id, "implementation", Monday, 14, 0, 15, 0, "g1")>>,
                 <<Block(id, "implementation", Monday, 14, 0, 15, 0, "g2")>>}}

InitCalendar ==
  /\ clock = At(Monday, 8, 0)
  /\ calendar = <<>>
  /\ failDays = {}
  /\ workingHours = "default"
  /\ call = [none |-> TRUE]
  /\ result = [status |-> "pending"]
  /\ LearnIdle
  /\ HookIdle
  /\ ListenIdle
  /\ StoreIdle
  /\ MirrorIdle
  /\ tasks \in {<<a, b>> : a \in CalendarTaskChoices(1),
                           b \in CalendarTaskChoices(2)}
  /\ storedTasks = [i \in 1..Len(tasks) |-> JsonRoundTrip(tasks[i])]
  /\ reschedulingInProgress = FALSE
  /\ passes = [p \in Calls |-> IdlePass]
  /\ eventStore = <<>>
  /\ eventListeners = <<"sync">>
  /\ delivered = <<>>

NextCalendar ==
  \/ \E p \in Calls, g \in {"g1", "g2", "gx"} :
       HandleCalendarChange(p, g)
         /\ UNCHANGED <<envVars, schedVars, learnVars, hookVars, storeVars, mirrorVars, listenVars>>
  \/ \E p \in Calls :
       AffectedTasksLoaded(p)
         /\ UNCHANGED <<envVars, schedVars, learnVars, hookVars, storeVars, mirrorVars, listenVars>>
  \/ \E p \in Calls :
       RescheduleNext(p)
         /\ UNCHANGED <<envVars, schedVars, learnVars, hookVars, storeVars, mirrorVars, listenVars>>

SpecCalendar == InitCalendar /\ [][NextCalendar]_vars

\* positions in the store of the tasks with a block that refers to event g
ReferencingAt(g) ==
  {i \in 1..Len(storedTasks) :
     \E k \in 1..Len(storedTasks[i].calendarEvents) :
        storedTasks[i].calendarEvents[k].googleEventId = g}

\* the ids of the tasks at the positions in S, in the order of the store
RECURSIVE IdsAt(_, _)
IdsAt(S, i) ==
  IF i > Len(storedTasks) THEN <<>>
  ELSE (IF i \in S THEN <<storedTasks[i].id>> ELSE <<>>) \o IdsAt(S, i + 1)

\* pass p has gone past getAffectedTasks
Selected(p) == passes[p].entry = "calendar" /\ passes[p].pc \in {"loop", "returned"}

\* what a calendar-change pass does with the tasks whose ids are expected
TriggersFor(p, expected) ==
  IF expected = <<>>
  THEN /\ passes[p].pc = "returned"
       /\ passes[p].event = NoEvent
       /\ \A k \in 1..Len(eventStore) : eventStore[k].id # p
       /\ \A k \in 1..Len(delivered) : delivered[k][2].id # p
  ELSE /\ passes[p].event # NoEvent
       /\ passes[p].event.triggeredBy = "calendar_change"
       /\ passes[p].event.affectedTasks = expected
       /\ [k \in 1..Len(passes[p].paths) |-> passes[p].paths[k].taskId]
            \o passes[p].queue = expected

\* C23: a calendar change for provider event g reschedules exactly the stored
\* tasks that are not done and have a block whose provider event id is g, with
\* reason calendar_change and those ids as the event's affectedTasks; when
\* there is none, no event is recorded and no listener is called
C23_TriggersForOpenReferencingTasks ==
  \A p \in Calls :
    Selected(p) =>
      TriggersFor(p, IdsAt({i \in ReferencingAt(passes[p].trigger) :
                              storedTasks[i].status # "done"}, 1))

\* C23 as stated: the same for every stored task with such a block, whatever
\* its status
C23_TriggersForReferencingTasks ==
  \A p \in Calls :
    Selected(p) => TriggersFor(p, IdsAt(ReferencingAt(passes[p].trigger), 1))

C23_Witness ==
  \E p \in Calls :
    /\ Selected(p) /\ passes[p].pc = "returned" /\ passes[p].trigger = "g1"
    /\ ReferencingAt("g1") = {1, 2}
    /\ storedTasks[1].status = "done"
    /\ passes[p].event # NoEvent
    /\ passes[p].event.affectedTasks = <<2>>
    /\ \E k \in 1..Len(delivered) : delivered[k][2].id = p

----------------------------------------------------------------------------
(* Learning Records and insights (SpecLearn)                                *)

Fractions(dist) ==
  <<dist.incubation, dist.design, dist.implementation, dist.improvement>>

\* C24: in every Learning Record, after every recordActualTime update, the
\* four phase-distribution fractions sum to 1, also when the observation's
\* actual minutes total zero
C24_DistributionSumsToOne ==
  \A t \in TaskTypes :
    learningData[t] # NoRecord
      => RSum(Fractions(learningData[t].phaseDistribution)) = Rat(1, 1)

\* the recorded minutes are, phase by phase, those of the estimation
SameMinutes(estimation, actualTime) ==
  /\ actualTime.incubation = estimation.incubation
  /\ actualTime.design = estimation.design
  /\ actualTime.implementation = estimation.implementation
  /\ actualTime.improvement = estimation.improvement
  /\ Total4(actualTime) = estimation.total

\* C25: after recording an actual time equal to the task's estimation,
\* getLearningInsights reports overallAccuracy 1 when the task's category is
\* the only one learned
C25_PerfectRecordGivesAccuracyOne ==
  [][\A t \in RecordedTasks, a \in ActualSet :
       (/\ recordActualTime(t, a)
        /\ t.estimation # NoRecord
        /\ SameMinutes(t.estimation, a)
        /\ \A c \in TaskTypes : learningData'[c] # NoRecord => c = classifyTask(t))
         => getLearningInsights(learningData', taskHistory', FALSE).overallAccuracy
              = Rat(1, 1)]_vars

\* C28: getLearningInsights does not throw when the storage read fails; it
\* returns insights, with no task types and overall accuracy 0 when nothing
\* has been learned
C28_InsightsSurviveStorageFailure ==
  /\ insights.status # "thrown"
  /\ (insights.status = "returned" /\ \A t \in TaskTypes : learningData[t] = NoRecord)
       => insights.taskTypes = {} /\ insights.overallAccuracy = Rat(0, 1)

----------------------------------------------------------------------------
(* Recording and the next estimate within one category, with an estimation  *)
(* whose total is zero among the inputs (SpecRecord)                        *)

RecordShapes == {[project |-> "work", keywords |-> <<>>, title |-> {}]}

\* tasks whose actual time is recorded: without an estimation, with the
\* default one, with an empty one
ObservedTasks ==
  {LearnTask(2, c, e) : c \in RecordShapes,
                        e \in {NoRecord, Est(12, 18, 24, 6, 60), Est(0, 0, 0, 0, 0)}}

\* new tasks an estimation is requested for
NewTasks == {LearnTask(p, c, NoRecord) : p \in 1..3, c \in RecordShapes}

NextRecord ==
  \/ \E t \in ObservedTasks, a \in ActualSet :
       recordActualTime(t, a)
         /\ UNCHANGED <<envVars, schedVars, reschedVars, hookVars, storeVars, mirrorVars, listenVars>>
  \/ \E t \in NewTasks :
       RequestEstimation(t)
         /\ UNCHANGED <<envVars, schedVars, reschedVars, hookVars, storeVars, mirrorVars, listenVars>>

SpecRecord == InitLearn /\ [][NextRecord]_vars

\* max(0, 1 - |e - a| / max(e, a)); 1 when both are zero, 0 when one is
ObservedAccuracy(e, a) ==
  IF e = 0 /\ a = 0 THEN Rat(1, 1)
  ELSE IF e = 0 \/ a = 0 THEN Rat(0, 1)
  ELSE LET q == RAdd(Rat(1, 1), Rat(0 - Abs(e - a), Max2(e, a)))
       IN IF q.n < 0 THEN Rat(0, 1) ELSE q

\* 0.1 * observed + 0.9 * old
Blend(observed, old) ==
  RAdd(Rat(observed.n, observed.d * 10), Rat(9 * old.n, old.d * 10))

\* the estimation a recording is measured against
OriginalEstimation(t) ==
  IF t.estimation = NoRecord THEN getDefaultEstimation ELSE t.estimation

OnceRecorded(type) ==
  updateLearningData([c \in TaskTypes |-> NoRecord],
                     LearnTask(2, [project |-> type, keywords |-> <<>>,
                                   title |-> {}], NoRecord),
                     getDefaultEstimation, Actual(20, 20, 20, 20))[type]

\* the 20/30/40/10 split of a total
DefaultSplit(total) ==
  <<FloorMul(total, Tenth(2)), FloorMul(total, Tenth(3)),
    FloorMul(total, Tenth(4)), FloorMul(total, Tenth(1))>>

PhaseMinutes(e) == <<e.incubation, e.design, e.implementation, e.improvement>>

\* C27: once {20, 20, 20, 20} has been recorded against an estimation of 60
\* for a category without a record, the next improved estimate for a new task
\* of the category has a confidence other than 0.7 and phase minutes other
\* than the 20/30/40/10 split of its total
C27_LearnedEstimateDiffers ==
  [][\A t \in NewTasks :
       (RequestEstimation(t)
          /\ learningData[classifyTask(t)] = OnceRecorded(classifyTask(t)))
         => /\ estimate'.estimation.confidence # Rat(7, 10)
            /\ PhaseMinutes(estimate'.estimation)
                 # DefaultSplit(estimate'.estimation.total)]_vars

C27_Witness ==
  /\ taskHistory = 1
  /\ estimate # NoEstimate
  /\ learningData[classifyTask(estimate.task)]
       = OnceRecorded(classifyTask(estimate.task))
  /\ estimate.task.priority = 2
  /\ estimate.estimation.confidence = Rat(141, 200)
  /\ PhaseMinutes(estimate.estimation) = <<12, 17, 25, 6>>

----------------------------------------------------------------------------
(* Working hours (SpecSched) *)

\* the interval from..to lies on one day, inside the working hours of that
\* day, and the day is enabled
InWorkingHours(from, to) ==
  LET day == DayOf(from)
      cfg == Hours(workingHours)[getDayOfWeek(from)]
  IN /\ cfg.enabled
     /\ At(day, cfg.startH, cfg.startM) <= from
     /\ from <= to
     /\ to <= At(day, cfg.endH, cfg.endM)

\* C29: every free slot findAvailableTimeSlots returns and every block
\* scheduleTask places lies inside the working hours of an enabled weekday,
\* also when the provider query fails
C29_InsideWorkingHours ==
  /\ Searched =>
       \A i \in 1..Len(result.slots) :
          InWorkingHours(result.slots[i].start, result.slots[i].end)
  /\ Returned =>
       \A i \in 1..Len(result.events) :
          InWorkingHours(result.events[i].startTime, result.events[i].endTime)

\* mornings only and tuesday off, the monday query fails, the deadline is on
\* tuesday: the blocks are on monday morning
C29_Witness ==
  /\ Returned
  /\ workingHours = "mornings"
  /\ failDays = {Monday}
  /\ DayOf(call.task.dueDate) = Tuesday
  /\ result.slots = <<WholeWindow(Monday)>>
  /\ Len(result.events) >= 4

----------------------------------------------------------------------------
(* The guard across a whole handleCalendarChange pass, failures included    *)
(* (SpecGuard).  A pass is suspended at its awaits only; the continuation   *)
(* runs once the awaited promise settles, which is assumed of every storage *)
(* read and provider query: the steps of a pass are weakly fair, the        *)
(* arrival of triggers is not.                                              *)

\* the catch and finally blocks of handleCalendarChange, and nothing else
CalendarPassFailsGuardKept(p) ==
  /\ passes[p].pc = "affected"
  /\ passes' = [passes EXCEPT ![p].pc = "caught"]
  /\ UNCHANGED <<tasks, storedTasks, eventStore, eventListeners, delivered,
                 reschedulingInProgress>>

\* the pass throws before its loop: JSON.parse of the stored tasks in
\* getAffectedTasks, or the read of the stored settings at the start of
\* rescheduleAffectedTasks.  catch logs the error, finally releases the guard
CalendarPassFails(p) ==
  /\ passes[p].pc = "affected"
  /\ passes' = [passes EXCEPT ![p].pc = "caught"]
  /\ reschedulingInProgress' = FALSE
  /\ UNCHANGED <<tasks, storedTasks, eventStore, eventListeners, delivered>>

\* await getAffectedTasks settles, one way or the other
AwaitSettles ==
  \E p \in Calls :
    (AffectedTasksLoaded(p) \/ CalendarPassFails(p))
      /\ UNCHANGED <<envVars, schedVars, learnVars, hookVars, storeVars, mirrorVars, listenVars>>

\* the awaits of one turn of the for-loop settle
LoopStep ==
  \E p \in Calls :
    RescheduleNext(p)
      /\ UNCHANGED <<envVars, schedVars, learnVars, hookVars, storeVars, mirrorVars, listenVars>>

\* ENABLED <<LoopStep>>_vars: a turn always changes the pass it belongs to
InLoop == \E p \in Calls : passes[p].pc = "loop" /\ passes[p].queue # <<>>

\* WF_vars(LoopStep), with ENABLED written out as InLoop
LoopFairness == []<>(~InLoop) \/ []<><<LoopStep>>_vars

NextGuard ==
  \/ \E p \in Calls, g \in {"g1", "g2", "gx"} :
       HandleCalendarChange(p, g)
         /\ UNCHANGED <<envVars, schedVars, learnVars, hookVars, storeVars, mirrorVars, listenVars>>
  \/ \E p \in Calls :
       AffectedTasksLoaded(p)
         /\ UNCHANGED <<envVars, schedVars, learnVars, hookVars, storeVars, mirrorVars, listenVars>>
  \/ \E p \in Calls :
       CalendarPassFails(p)
         /\ UNCHANGED <<envVars, schedVars, learnVars, hookVars, storeVars, mirrorVars, listenVars>>
  \/ \E p \in Calls :
       RescheduleNext(p)
         /\ UNCHANGED <<envVars, schedVars, learnVars, hookVars, storeVars, mirrorVars, listenVars>>

SpecGuard ==
  InitCalendar /\ [][NextGuard]_vars /\ WF_vars(AwaitSettles) /\ LoopFairness

\* pass p has set the guard and not yet left handleCalendarChange
Holding(p) == passes[p].entry = "calendar" /\ passes[p].pc \in {"affected", "loop"}

\* pass p has left handleCalendarChange after setting the guard
Left(p) == passes[p].entry = "calendar" /\ passes[p].pc \in {"returned", "caught"}

\* C30: every handleCalendarChange pass that sets the guard resets it in the
\* end, whether it ends with an event, without an affected task or with an
\* error; the guard is set only while such a pass is running, so a trigger
\* that arrives after the pass has ended is accepted
C30_GuardEventuallyReset ==
  /\ \A p \in Calls : Holding(p) ~> (Left(p) /\ ~reschedulingInProgress)
  /\ [](reschedulingInProgress <=> \E p \in Calls : Holding(p))
  /\ [][\A p \in Calls :
          (passes[p].pc = "idle" /\ passes'[p].pc # "idle" /\ ~reschedulingInProgress)
            => passes'[p].pc = "affected"]_vars

\* one pass ended with an error, another without an affected task, and the
\* triggers that came after them were accepted
C30_Witness ==
  /\ ~reschedulingInProgress
  /\ passes[1].pc = "caught"
  /\ passes[2].pc = "returned" /\ passes[2].event = NoEvent
  /\ \A p \in Calls : passes[p].pc # "dropped"

----------------------------------------------------------------------------
(* Phase minutes of the returned blocks (SpecSched) *)

\* the blocks tagged with the phase
BlocksOf(blocks, phase) == SelectSeq(blocks, LAMBDA b : b.phase = phase)

\* C31: on success the blocks tagged with a phase last, together, exactly
\* that phase's estimated minutes, and a phase of zero minutes has no block
C31_PhaseMinutesKept ==
  Returned =>
    \A k \in 1..4 :
      /\ BlockTicks(BlocksOf(result.events, PhaseNames[k]))
           = Mins(call.estimation[PhaseNames[k]])
      /\ call.estimation[PhaseNames[k]] = 0
           => BlocksOf(result.events, PhaseNames[k]) = <<>>

\* one phase of 200 minutes, three of none: the phase is split over two slots
C31_Witness ==
  /\ Returned
  /\ call.estimation = Est(0, 0, 200, 0, 200)
  /\ Len(result.events) >= 2
  /\ BlocksOf(result.events, "implementation") = result.events
  /\ result.events[1].endTime - result.events[1].startTime < Mins(200)

----------------------------------------------------------------------------
(* Free slots under any working hours the settings form can hold            *)
(* (SpecSlots)                                                              *)

InitSlots ==
  /\ clock \in NowSet
  /\ calendar \in SeqsUpTo(BusyPool, MaxBusy)
  /\ failDays \in {{}, {Monday}, {Monday, Tuesday}}
  /\ workingHours \in {"default", "brief"}
  /\ call \in [task : {[id |-> 1, dueDate |-> d, dueIsDate |-> TRUE] :
                         d \in DueSet \ {NoDate}},
               estimation : {Est(12, 18, 24, 6, 60)},
               bufferTime : BufferSet]
  /\ result = [status |-> "pending"]
  /\ LearnIdle
  /\ HookIdle
  /\ ListenIdle
  /\ StoreIdle
  /\ MirrorIdle
  /\ ReschedIdle

SpecSlots == InitSlots /\ [][NextSched]_vars

\* C32: every free slot returned has end > start and lasts at least 30
\* minutes, and the list is in ascending order with disjoint slots, whatever
\* the busy intervals and also for a day whose provider query failed
C32_SlotsWellFormed ==
  Searched =>
    /\ \A i \in 1..Len(result.slots) :
         /\ result.slots[i].end > result.slots[i].start
         /\ result.slots[i].duration >= Mins(MinSlotMinutes)
    /\ \A i, j \in 1..Len(result.slots) :
         i < j => result.slots[i].end <= result.slots[j].start

----------------------------------------------------------------------------
(* The relaxation ladder, one awaited scheduleTask call per step            *)
(* (SpecLadder)                                                             *)

\* the retries in the order of the code; the first is made only for a task
\* with a deadline
ladderRungsShrinkFirst(task) ==
  IF task.dueDate # NoDate THEN <<"a", "c", "b">> ELSE <<"c", "b">>

ladderRungs(task) ==
  IF task.dueDate # NoDate THEN <<"a", "b", "c">> ELSE <<"b", "c">>

\* the arguments of the scheduleTask call of a retry
relaxedCall(rung, task, est, buf) ==
  IF rung = "a"
  THEN [task |-> [task EXCEPT !.dueDate = task.dueDate + SevenDays * DayLen,
                              !.dueIsDate = TRUE],
        estimation |-> est, bufferTime |-> buf]
  ELSE IF rung = "b"
  THEN [task |-> task, estimation |-> est, bufferTime |-> reducedBufferTime(buf)]
  ELSE [task |-> task, estimation |-> reducedEstimation(est), bufferTime |-> buf]

\* a meeting from monday 10:00 to the evening of the tuesday a week later
LongMeeting == [start |-> At(Monday, 10, 0), end |-> At(Tuesday + 7, 18, 0)]

\* buffers of 0, 4 and 15 minutes
LadderBuffers == {0, Mins(4), Mins(15)}

\* estimations stored with a task, and the one estimateTaskTime computes for
\* a task of priority 1 that has none
LadderEstimations ==
  {Est(12, 18, 24, 6, 60), Est(0, 0, 50, 0, 50), Est(0, 0, 60, 0, 60),
   Est(0, 0, 200, 0, 200),
   basicEstimate([estimation |-> NoRecord, priority |-> 1])}

InitLadder ==
  /\ clock \in {At(Monday, 8, 0), At(Monday, 10, 30)}
  /\ calendar \in {<<>>, <<LongMeeting>>, <<Busy(Monday, 9, 30, 10, 0), LongMeeting>>}
  /\ failDays = {}
  /\ workingHours = "default"
  /\ call \in [task : {[id |-> 1, dueDate |-> d, dueIsDate |-> TRUE] :
                         d \in {NoDate, At(Monday, 12, 0), At(Tuesday, 18, 0)}},
               estimation : LadderEstimations,
               bufferTime : LadderBuffers]
  /\ result = [status |-> "running", tried |-> <<>>, events |-> <<>>]
  /\ LearnIdle
  /\ HookIdle
  /\ ListenIdle
  /\ StoreIdle
  /\ MirrorIdle
  /\ ReschedIdle

\* scheduleTaskWithRelaxedConstraints from one await to the next: the retry
\* returns, and its blocks are returned, or it throws and the next retry is
\* made, or after the last one the error is thrown
LadderStep ==
  /\ result.status = "running"
  /\ \E rungs \in {ladderRungs(call.task)} :
     \E rung \in {rungs[Len(result.tried) + 1]} :
     \E args \in {relaxedCall(rung, call.task, call.estimation, call.bufferTime)} :
     \E r \in {scheduleTask(args.task, args.estimation, Hours(workingHours),
                            args.bufferTime, clock, calendar, failDays)} :
       result' = [status |-> IF r.status = "ok" THEN "ok"
                             ELSE IF Len(result.tried) + 1 = Len(rungs)
                             THEN "failed" ELSE "running",
                  tried |-> Append(result.tried, rung),
                  events |-> r.events]
  /\ UNCHANGED <<envVars, call, learnVars, reschedVars, hookVars, storeVars, mirrorVars, listenVars>>

NextLadder == LadderStep

SpecLadder == InitLadder /\ [][NextLadder]_vars

\* what the retry named by the claim returns: (a) the deadline seven days
\* later, (b) the buffer halved but at least five minutes, (c) every phase
\* at 70%
Attempt(rung) ==
  LET t == call.task
      e == call.estimation
      later == [t EXCEPT !.dueDate = t.dueDate + 7 * DayLen]
      half == IF call.bufferTime \div 2 > Mins(5) THEN call.bufferTime \div 2
              ELSE Mins(5)
      less == [incubation |-> (e.incubation * 7) \div 10,
               design |-> (e.design * 7) \div 10,
               implementation |-> (e.implementation * 7) \div 10,
               improvement |-> (e.improvement * 7) \div 10,
               total |-> (e.total * 7) \div 10]
  IN IF rung = "a"
     THEN scheduleTask(later, e, Hours(workingHours), call.bufferTime, clock,
                       calendar, failDays)
     ELSE IF rung = "b"
     THEN scheduleTask(t, e, Hours(workingHours), half, clock, calendar, failDays)
     ELSE scheduleTask(t, less, Hours(workingHours), call.bufferTime, clock,
                       calendar, failDays)

CallsMade ==
  {relaxedCall(result.tried[k], call.task, call.estimation, call.bufferTime) :
     k \in 1..Len(result.tried)}

\* C35: the buffer of retry (b) is never larger than the original buffer,
\* whatever the original buffer is
C35_BufferNeverLarger ==
  \A c \in CallsMade : c.bufferTime <= call.bufferTime

\* C36: every estimation handed to the allocator has a total equal to the
\* sum of its four phases
C36_TotalIsSumOfPhases ==
  \A c \in CallsMade :
    c.estimation.total = c.estimation.incubation + c.estimation.design
                         + c.estimation.implementation + c.estimation.improvement

----------------------------------------------------------------------------
(* The improved estimate as a function of the record (SpecRecord)           *)

\* 60 minutes times 1.5, 1.0 or 0.7, floored
PriorityScaledBase(priority) ==
  IF priority = 3 THEN 90 ELSE IF priority = 1 THEN 42 ELSE 60

\* the estimate just returned for t is the one stated for a category with a
\* record
LearnedEstimateAsStated(t) ==
  LET rec == learningData[classifyTask(t)]
      e == estimate'.estimation
      base == PriorityScaledBase(t.priority)
      total == IF RGreater(rec.underestimationRate, Rat(6, 10))
               THEN (base * 12) \div 10
               ELSE IF RGreater(rec.overestimationRate, Rat(6, 10))
               THEN (base * 9) \div 10
               ELSE base
      share(phase) == FloorMul(total, rec.phaseDistribution[phase])
  IN /\ e.total = total
     /\ e.confidence = rec.estimationAccuracy
     /\ e.incubation = share("incubation")
     /\ e.design = share("design")
     /\ e.improvement = share("improvement")
     /\ e.implementation = total - share("incubation") - share("design")
                             - share("improvement")

\* the estimate just returned for t is the one stated for a category without
\* a record
UnlearnedEstimateAsStated(t) ==
  LET e == estimate'.estimation
  IN /\ e.total = PriorityScaledBase(t.priority)
     /\ PhaseMinutes(e) = DefaultSplit(e.total)
     /\ e.confidence = Rat(7, 10)

\* C34: with a record for the category the improved estimate has the
\* priority-scaled base times 1.2 / 0.9 / 1 (floored) as its total, the
\* learned accuracy as its confidence and floor(total x learned fraction)
\* as each phase, the remainder going to implementation; without a record it
\* has the 20/30/40/10 split of its total and confidence 0.7
C34_ImprovedEstimate ==
  [][\A t \in NewTasks :
       RequestEstimation(t)
         => IF learningData[classifyTask(t)] # NoRecord
            THEN LearnedEstimateAsStated(t)
            ELSE UnlearnedEstimateAsStated(t)]_vars

----------------------------------------------------------------------------
(* Schedule window and blocks of a task (SpecSync)                          *)

\* one turn of the loop of a calendar pass with the sync hook mounted: at the
\* end of the pass notifyListeners calls the hook's handleReschedulingEvent
SyncedRescheduleNext(p) ==
  /\ passes[p].entry = "calendar"
  /\ RescheduleNext(p)
  /\ IF passes'[p].pc = "returned"
     THEN handleReschedulingEvent(passes'[p].event)
     ELSE UNCHANGED hookVars

\* one turn of the loop of a pass started by the manual check
ManualRescheduleNext(p) ==
  /\ passes[p].entry = "direct"
  /\ RescheduleNext(p)
  /\ UNCHANGED hookVars

\* the user's calendar at the provider changes: a meeting on monday, for the
\* first hour or for the whole day, is added or removed
ProviderCalendarChanges ==
  /\ calendar' \in {<<>>, <<Busy(Monday, 9, 0, 10, 0)>>,
                    <<Busy(Monday, 9, 0, 18, 0)>>} \ {calendar}
  /\ UNCHANGED <<clock, failDays, workingHours>>

\* calendar changes and manual checks with the hook listening, its timers,
\* and the provider's calendar changing in between
NextSync ==
  \/ \E p \in Calls, g \in GoogleEventIds :
       HandleCalendarChange(p, g)
         /\ UNCHANGED <<envVars, schedVars, learnVars, hookVars, storeVars, mirrorVars, listenVars>>
  \/ \E p \in Calls :
       AffectedTasksLoaded(p)
         /\ UNCHANGED <<envVars, schedVars, learnVars, hookVars, storeVars, mirrorVars, listenVars>>
  \/ \E p \in Calls :
       SyncedRescheduleNext(p)
         /\ UNCHANGED <<envVars, schedVars, learnVars, storeVars, mirrorVars, listenVars>>
  \/ \E p \in Calls :
       TriggerReschedulingCheck(p)
         /\ UNCHANGED <<envVars, schedVars, learnVars, storeVars, mirrorVars, listenVars>>
  \/ \E p \in Calls :
       ManualRescheduleNext(p)
         /\ UNCHANGED <<envVars, schedVars, learnVars, storeVars, mirrorVars, listenVars>>
  \/ \E p \in Calls :
       EventReturned(p) /\ UNCHANGED <<envVars, schedVars, learnVars, storeVars, mirrorVars, listenVars>>
  \/ \E event \in timers :
       TimerFires(event) /\ UNCHANGED <<envVars, schedVars, learnVars, storeVars, mirrorVars, listenVars>>
  \/ RejectRescheduling /\ UNCHANGED <<envVars, schedVars, learnVars, storeVars, mirrorVars, listenVars>>
  \/ ProviderCalendarChanges
       /\ UNCHANGED <<schedVars, learnVars, reschedVars, hookVars, storeVars, mirrorVars, listenVars>>

SpecSync == InitHook /\ [][NextSync]_vars

\* the window of the task is [earliest block start, latest block end]
WindowSpansBlocks(task) ==
  LET blocks == task.calendarEvents
  IN /\ \E i \in 1..Len(blocks) : task.scheduledStartDate = blocks[i].startTime
     /\ \A i \in 1..Len(blocks) : task.scheduledStartDate <= blocks[i].startTime
     /\ \E i \in 1..Len(blocks) : task.scheduledEndDate = blocks[i].endTime
     /\ \A i \in 1..Len(blocks) : task.scheduledEndDate >= blocks[i].endTime

\* C37: every task that has blocks has the schedule window [earliest block
\* start, latest block end] of its current blocks, in the application's task
\* list and in the list the rescheduler works on
C37_WindowMatchesBlocks ==
  /\ \A i \in 1..Len(tasks) :
       tasks[i].calendarEvents # <<>> => WindowSpansBlocks(tasks[i])
  /\ \A i \in 1..Len(storedTasks) :
       storedTasks[i].calendarEvents # <<>> => WindowSpansBlocks(storedTasks[i])

----------------------------------------------------------------------------
(* WebhookHandler: startListening, stopListening and the polling timer      *)
(* (SpecWebhook)                                                            *)

MaxIntervals == 3
MaxChecks == 5

\* startListening: nothing when already listening, else setInterval in
\* setupMockWebhookListener and isListening = true
StartListening ==
  /\ webhook.intervals < MaxIntervals
  /\ webhook' = IF webhook.isListening THEN webhook
                ELSE [webhook EXCEPT !.intervals = @ + 1, !.isListening = TRUE]

\* stopListening: nothing when not listening; else eventSource, which is
\* never assigned, is left null and isListening = false
StopListening ==
  webhook' = IF ~webhook.isListening THEN webhook
             ELSE [webhook EXCEPT !.isListening = FALSE]

\* one of the interval timers fires: checkForCalendarChanges, which with
\* Math.random() < 0.1 hands an 'updated' event to handleWebhookEvent and so
\* to realtimeScheduler.handleCalendarChange
IntervalFires(k, detected) ==
  /\ k \in 1..webhook.intervals
  /\ webhook.checks < MaxChecks
  /\ webhook' = [webhook EXCEPT !.checks = @ + 1,
                                !.signals = IF detected THEN @ + 1 ELSE @]

InitWebhook ==
  /\ clock = At(Monday, 8, 0)
  /\ calendar = <<>>
  /\ failDays = {}
  /\ workingHours = "default"
  /\ call = [none |-> TRUE]
  /\ result = [status |-> "pending"]
  /\ LearnIdle
  /\ HookIdle
  /\ ListenIdle
  /\ StoreIdle
  /\ MirrorIdle
  /\ ReschedIdle

NextWebhook ==
  \/ StartListening
       /\ UNCHANGED <<envVars, schedVars, learnVars, reschedVars, hookVars, storeVars, mirrorVars>>
  \/ StopListening
       /\ UNCHANGED <<envVars, schedVars, learnVars, reschedVars, hookVars, storeVars, mirrorVars>>
  \/ \E k \in 1..MaxIntervals, detected \in BOOLEAN :
       IntervalFires(k, detected)
         /\ UNCHANGED <<envVars, schedVars, learnVars, reschedVars, hookVars, storeVars, mirrorVars>>

SpecWebhook == InitWebhook /\ [][NextWebhook]_vars

\* C38: while the handler is not listening no calendar-change check fires and
\* no change signal reaches the rescheduler, and at most one polling timer is
\* active at any time
C38_QuietWhenStopped ==
  /\ [][~webhook.isListening
          => /\ webhook'.checks = webhook.checks
             /\ webhook'.signals = webhook.signals]_vars
  /\ [](webhook.intervals <= 1)

----------------------------------------------------------------------------
(* The ids of the blocks of one scheduleTask call (SpecIds)                 *)

\* the milliseconds Date.now() may advance while the loops of one call run
MaxDrift == 1

\* the Date.now() readings of n successive placements, as milliseconds after
\* the first: the clock never runs backwards and need not advance
Readings(n) ==
  {s \in [1..n -> 0..MaxDrift] : \A i, j \in 1..n : i <= j => s[i] <= s[j]}

\* id: `${task.id}-${phase.phase}-${Date.now()}`
blockId(taskId, phase, ms) == <<taskId, phase, ms>>

InitIds ==
  /\ clock = At(Monday, 8, 0)
  /\ calendar \in SeqsUpTo(BusyPool, 1)
  /\ failDays = {}
  /\ workingHours = "default"
  /\ LearnIdle
  /\ HookIdle
  /\ ListenIdle
  /\ StoreIdle
  /\ MirrorIdle
  /\ ReschedIdle
  /\ call \in [task : {[id |-> 1, dueDate |-> d, dueIsDate |-> TRUE] :
                         d \in {At(Monday, 12, 0), At(Tuesday, 18, 0)}},
               estimation : EstimationSet,
               bufferTime : BufferSet]
  /\ result = [status |-> "pending"]

\* one scheduleTask call, each block pushed with the id built from the clock
\* reading of its placement
CallScheduleTaskIds ==
  /\ result.status = "pending"
  /\ \E r \in {scheduleTask(call.task, call.estimation, Hours(workingHours),
                            call.bufferTime, clock, calendar, failDays)} :
     \E ms \in Readings(Len(r.events)) :
       result' = [r EXCEPT !.events =
                    [i \in 1..Len(r.events) |->
                       [id |-> blockId(r.events[i].taskId, r.events[i].phase, ms[i]),
                        taskId |-> r.events[i].taskId,
                        phase |-> r.events[i].phase,
                        startTime |-> r.events[i].startTime,
                        endTime |-> r.events[i].endTime]]]
  /\ UNCHANGED <<envVars, call, learnVars, reschedVars, hookVars, storeVars, mirrorVars, listenVars>>

NextIds == CallScheduleTaskIds

SpecIds == InitIds /\ [][NextIds]_vars

\* C39: the blocks returned by one scheduleTask call have pairwise distinct
\* ids
C39_DistinctBlockIds ==
  Returned =>
    \A i, j \in 1..Len(result.events) :
      i # j => result.events[i].id # result.events[j].id

----------------------------------------------------------------------------
(* scheduleTask placing from the deadline backwards (SpecBackward)          *)

\* Array.prototype.reverse
Reverse(seq) == [i \in 1..Len(seq) |-> seq[Len(seq) + 1 - i]]

\* the earlier scheduleTask: the slots and the phases are walked in reverse,
\* each slot is still filled from its start, and the list of blocks is
\* reversed before it is returned
scheduleTaskBackward(task, est, wh, buf, now, cal, failing) ==
  IF task.dueDate = NoDate
  THEN [status |-> "MissingDeadline", events |-> <<>>]
  ELSE LET slots == findAvailableTimeSlots(now, task.dueDate, task.dueIsDate,
                                           wh, buf, cal, failing)
           r == SlotLoop(task.id, Reverse(slots), Reverse(PhaseList(est)), buf,
                         <<>>)
       IN IF Len(r.phases) > 0
          THEN [status |-> "CapacityExceeded", events |-> <<>>]
          ELSE [status |-> "ok", events |-> Reverse(r.events)]

CallScheduleTaskBackward ==
  /\ result.status = "pending"
  /\ result' = scheduleTaskBackward(call.task, call.estimation,
                                    Hours(workingHours), call.bufferTime, clock,
                                    calendar, failDays)
  /\ UNCHANGED <<envVars, call, learnVars, reschedVars, hookVars, storeVars, mirrorVars, listenVars>>

NextBackward == CallScheduleTaskBackward

SpecBackward == InitIds /\ [][NextBackward]_vars

\* C40: the list the backward-placing scheduleTask returns is in
\* chronological order, and chronologically no block of a later phase comes
\* before a block of an earlier phase
C40_BackwardChronological ==
  Returned =>
    LET ev == result.events IN
      /\ \A i, j \in 1..Len(ev) : i < j => ev[i].endTime <= ev[j].startTime
      /\ \A i, j \in 1..Len(ev) :
            ev[i].startTime < ev[j].startTime
              => PhaseIndex(ev[i].phase) <= PhaseIndex(ev[j].phase)

====
